---------------------------- MODULE Spec2Model ----------------------------
(***************************************************************************)
(* A model of the sbar-rs daemon core: the shared DaemonState snapshot and *)
(* its refresh operations (src/src/state.rs), the EventManager's periodic  *)
(* tasks and their shutdown (src/src/events.rs), and the daemon's run loop *)
(* and display reconciliation (src/src/main.rs).                           *)
(*                                                                         *)
(* Nine specifications share the variables:                               *)
(*   Spec       the state-sync tick (join! of the three refreshes) and     *)
(*              readers of the three snapshot collections;                 *)
(*   ConcSpec   two independent callers of update_spaces and two readers   *)
(*              of the spaces collection;                                  *)
(*   SnapSpec   update_windows and update_current_app called by tasks of   *)
(*              their own, a reader of spaces and the three render units;  *)
(*   IsoSpec    update_spaces and update_windows called by tasks of their  *)
(*              own and a reader of each collection;                       *)
(*   WmSpec     update_spaces and update_windows called one after the      *)
(*              other, two readers, and the window manager moving spaces;  *)
(*   SchedSpec  run, the signal task, start_event_loops and the seven      *)
(*              RefreshTasks, with the shutdown channel;                   *)
(*   ReconSpec  the calls of detect_and_setup_displays and the render      *)
(*              passes over the bars;                                      *)
(*   LockSpec   the lock acquisitions and releases of the display monitor, *)
(*              the render tasks and the three refreshes, with tokio's     *)
(*              first-come-first-served RwLock;                            *)
(*   TitleSpec  the window render unit applied to a focused window's       *)
(*              title, a string of characters of one to four bytes.        *)
(***************************************************************************)
EXTENDS Integers, Sequences, FiniteSets, TLC

(***************************************************************************)
(* Bounds of the model.                                                    *)
(***************************************************************************)
\* space indices are 1..MaxSpace
MaxSpace == 2
\* a space holds 0..MaxWinPerSpace windows (SpaceInfo.windows.len())
MaxWinPerSpace == 0
\* window ids are 1..MaxWindow
MaxWindow == 1
\* SIGTERMs the environment raises
MaxSigterm == 1
\* display indices are 1..MaxDisplay
MaxDisplay == 2
\* a title is at most MaxAscii one-byte characters, then at most MaxWide
\* characters of several bytes, then at most MaxTail one-byte characters
MaxAscii == 51
MaxWide == 2
MaxTail == 2

\* items/window.rs:77-78: the length above which a title is cut, and the
\* bytes of it that are kept
TitleLimit == 50
TitleKeep == 47

VARIABLES
    \* DaemonState (state.rs:11-16)
    spaces,        \* HashMap<u32, SpaceInfo>: a function on a set of indices
    windows,       \* HashMap<u32, WindowInfo>: a function on a set of ids
    current_app,   \* Option<String>: <<>> is None, <<n>> is Some(n)
    \* the tokio RwLock of each collection
    wlock,         \* lock name -> the holder of the write guard, or NoOne
    rlock,         \* lock name -> the set of holders of a read guard
    \* the refresh calls in flight
    pc,            \* call id -> its position
    qres,          \* call id -> the data its query returned
    ins,           \* call id -> how many items of qres[o] are inserted
    old_count,     \* call id -> update_windows's old_count local
    changed,       \* call id -> its `changed` local
    result,        \* call id -> what the call returned
    \* the state-sync task's tick (events.rs:99-124)
    sync_pc,
    attempts,      \* history: call id -> queries issued since the tick began
    \* readers
    rpc,           \* reader -> its position
    rseen,         \* reader -> the value it read under its guard
    \* history: lock name -> the collection at the last release of its write
    \* guard (at construction before any)
    committed,
    \* the daemon's run, the broadcast channel and the tasks (main.rs, events.rs)
    main_pc,       \* SketchyBarDaemon::run's position
    sig_pending,   \* SIGTERMs delivered to the Signals stream and not yet read
    sig_raised,    \* history: SIGTERMs raised since the handler was installed
    sigtask,       \* the signal task's position
    tail,          \* broadcast channel: messages sent to it
    rx,            \* receiver -> [live, next]: next is the position it reads next
    em_pc,         \* EventManager::start_event_loops's position
    em_cause,      \* which select! branch made start_event_loops return
    task_pc,       \* RefreshTask -> its position
    monitor_pc,    \* monitor_displays's position
    \* reconciliation and rendering (main.rs:106-168, events.rs:137-152)
    displays,      \* SketchyBarDaemon.displays: the known display set
    bars,          \* SketchyBarDaemon.bars: the registered render targets
    state_displays,\* DaemonState.displays
    rc,            \* detect_and_setup_displays's locals and position
    rn,            \* render task -> its pass's locals and position
    \* the window manager (yabai), which the queries ask
    space_display, \* space index -> the display the space is on
    window_space,  \* window id -> the space the window is on
    \* the tasks' positions on the locks (main.rs, events.rs, state.rs, items)
    lk_pos,        \* task -> the operation of its lock program it is at
    lk_held,       \* lock -> [writer, readers]: the tasks holding a guard
    lk_queue,      \* lock -> the tasks waiting for it, first come first
    \* the window render unit (items/window.rs:70-101)
    focused_window,\* the title of the window with the focus, if there is one
    sent_label     \* what the unit did: the label it sent, or its panic

snapVars == <<spaces, windows, current_app>>
lockVars == <<wlock, rlock>>
callVars == <<pc, qres, ins, old_count, changed, result>>
syncVars == <<sync_pc, attempts>>
readVars == <<rpc, rseen>>
stateVars == <<snapVars, lockVars, callVars, syncVars, readVars, committed>>

schedVars == <<main_pc, sig_pending, sig_raised, sigtask, tail, rx, em_pc, em_cause,
               task_pc, monitor_pc>>
reconVars == <<displays, bars, state_displays, rc, rn>>
wmVars == <<space_display, window_space>>
lkVars == <<lk_pos, lk_held, lk_queue>>
titleVars == <<focused_window, sent_label>>

vars == <<stateVars, schedVars, reconVars, wmVars, lkVars, titleVars>>

(***************************************************************************)
(* Data: Option, maps, the records of state.rs.                            *)
(***************************************************************************)
None == <<>>
Some(x) == <<x>>

EmptyMap == <<>>
MapInsert(m, k, v) == [x \in (DOMAIN m) \cup {k} |-> IF x = k THEN v ELSE m[x]]

SpaceIdx == 1..MaxSpace
DisplayIdx == 1..MaxDisplay
WindowIds == 1..MaxWindow
Titles == {"t1", "t2"}
AppNames == {"Terminal", "Safari"}
Unknown == "Unknown"

\* SpaceInfo (state.rs:114-120); `windows` is kept by its length, the only
\* thing the refresh and the render read of it; the label is left out.
SpaceInfo == [index : SpaceIdx, display : DisplayIdx, has_focus : BOOLEAN,
              nwin : 0..MaxWinPerSpace]
\* WindowInfo (state.rs:123-130); app and has_focus are left out.
WindowInfo == [id : WindowIds, title : Titles, space : SpaceIdx,
               display : DisplayIdx]

SeqsUpTo(S, n) == UNION {[1..k -> S] : k \in 0..n}

\* What query_spaces can return (yabai.rs:67-90): the spaces of the session,
\* each index once, in index order.
SpaceQueryResults ==
    {s \in SeqsUpTo(SpaceInfo, MaxSpace) :
        \A i, j \in DOMAIN s : i < j => s[i].index < s[j].index}

\* What query_windows can return (yabai.rs:93-117).
WindowQueryResults ==
    {s \in SeqsUpTo(WindowInfo, MaxWindow) :
        \A i, j \in DOMAIN s : i < j => s[i].id < s[j].id}

\* yabai answers a query from what it holds when it is asked: each space
\* with the display it is on, each window with the space it is on and that
\* space's display
SpacesNow(d) == \A i \in DOMAIN d : d[i].display = space_display[d[i].index]
WindowsNow(d) ==
    \A i \in DOMAIN d :
        /\ d[i].space = window_space[d[i].id]
        /\ d[i].display = space_display[d[i].space]

\* the map a refresh builds from a query result: clear, then insert in order
RECURSIVE InsertAll(_, _, _)
InsertAll(m, s, key) ==
    IF s = <<>> THEN m
    ELSE InsertAll(MapInsert(m, key[Head(s)], Head(s)), Tail(s), key)

SpaceKey == [s \in SpaceInfo |-> s.index]
WindowKey == [w \in WindowInfo |-> w.id]
SpacesOf(s) == InsertAll(EmptyMap, s, SpaceKey)
WindowsOf(s) == InsertAll(EmptyMap, s, WindowKey)

(***************************************************************************)
(* Locks: tokio::sync::RwLock, one per collection.                         *)
(***************************************************************************)
LockNames == {"spaces", "windows", "current_app"}
NoOne == "-"

\* (a write guard that is granted only when no guard of any collection is
\* held)
CanWrite_Global(l) == \A m \in LockNames : wlock[m] = NoOne /\ rlock[m] = {}

\* a write guard is granted when nobody holds a guard of the lock
CanWrite(l) == wlock[l] = NoOne /\ rlock[l] = {}

\* a read guard is granted whenever no write guard is held
CanRead_IgnoringWriter(l) == TRUE
CanRead(l) == wlock[l] = NoOne

(***************************************************************************)
(* The refresh calls.  s1, w1, a1 are the three futures of the state-sync  *)
(* task's join!; s2, w2, a2 are calls of update_spaces, update_windows and *)
(* update_current_app, each from a task of its own.                        *)
(***************************************************************************)
SyncCalls == {"s1", "w1", "a1"}
CallIds == SyncCalls \cup {"s2", "w2", "a2"}
TaskOf(o) == IF o \in SyncCalls THEN "sync" ELSE o

\* positions at which a call is between two await points of its task
Running == {"compare", "clear", "insert", "store"}

\* the order of the futures in the join! (events.rs:103-107)
JoinOrder == <<"s1", "w1", "a1">>
JoinPos(o) == CHOOSE i \in DOMAIN JoinOrder : JoinOrder[i] = o

\* The futures of one join! are polled by one task, first in the order they
\* are written: a future runs from one await point to the next without its
\* siblings running in between, and is first polled after those before it.
Polled(o) ==
    /\ \A p \in CallIds \ {o} : TaskOf(p) = TaskOf(o) => pc[p] \notin Running
    /\ o \in SyncCalls =>
         \A p \in SyncCalls : JoinPos(p) < JoinPos(o) => pc[p] # "query"

Ok(b) == <<"ok", b>>
Err == <<"err">>
NoResult == <<>>

Call(o) == [pc EXCEPT ![o] = "query"]

(***************************************************************************)
(* DaemonState::update_spaces (state.rs:29-59)                             *)
(***************************************************************************)
\* (a comparison that sees only the indices that are new)
SpacesChanged_NewIndexOnly(old, data) ==
    \E i \in DOMAIN data : data[i].index \notin DOMAIN old

\* (a comparison of the mapping the query gives with the one found)
SpacesChanged_ByContents(old, data) ==
    IF {data[i].index : i \in DOMAIN data} # DOMAIN old THEN TRUE
    ELSE \E i \in DOMAIN data : old[data[i].index] # data[i]

\* state.rs:33-46: the loop that computes `changed`
SpacesChanged(old, data) ==
    \E i \in DOMAIN data :
        IF data[i].index \in DOMAIN old
        THEN \/ old[data[i].index].has_focus # data[i].has_focus
             \/ old[data[i].index].nwin # data[i].nwin
        ELSE TRUE

\* (a refresh that empties the collection when its query fails)
update_spaces_query_err_clearing(o) ==
    /\ pc[o] = "query" /\ Polled(o)
    /\ pc' = [pc EXCEPT ![o] = "done"]
    /\ result' = [result EXCEPT ![o] = Err]
    /\ attempts' = [attempts EXCEPT ![o] = @ + 1]
    /\ spaces' = EmptyMap
    /\ UNCHANGED <<windows, current_app, lockVars, qres, ins, old_count, changed,
                   sync_pc, readVars, committed, schedVars, reconVars, wmVars, lkVars, titleVars>>

\* state.rs:30: query_spaces().await? fails: the call returns the error
update_spaces_query_err(o) ==
    /\ pc[o] = "query" /\ Polled(o)
    /\ pc' = [pc EXCEPT ![o] = "done"]
    /\ result' = [result EXCEPT ![o] = Err]
    /\ attempts' = [attempts EXCEPT ![o] = @ + 1]
    /\ UNCHANGED <<snapVars, lockVars, qres, ins, old_count, changed,
                   sync_pc, readVars, committed, schedVars, reconVars, wmVars, lkVars, titleVars>>

\* state.rs:30-31: the query succeeds and the call asks for the write guard,
\* which it gets at once when the lock is free and else awaits
update_spaces_query_ok(o) ==
    /\ pc[o] = "query" /\ Polled(o)
    /\ \E d \in SpaceQueryResults :
         SpacesNow(d) /\ qres' = [qres EXCEPT ![o] = d]
    /\ attempts' = [attempts EXCEPT ![o] = @ + 1]
    /\ IF CanWrite("spaces")
       THEN /\ wlock' = [wlock EXCEPT !["spaces"] = o]
            /\ pc' = [pc EXCEPT ![o] = "compare"]
       ELSE /\ pc' = [pc EXCEPT ![o] = "lock"]
            /\ UNCHANGED wlock
    /\ UNCHANGED <<snapVars, rlock, ins, old_count, changed, result,
                   sync_pc, readVars, committed, schedVars, reconVars, wmVars, lkVars, titleVars>>

\* state.rs:31: the awaited write guard is granted
update_spaces_lock(o) ==
    /\ pc[o] = "lock" /\ Polled(o)
    /\ CanWrite("spaces")
    /\ wlock' = [wlock EXCEPT !["spaces"] = o]
    /\ pc' = [pc EXCEPT ![o] = "compare"]
    /\ UNCHANGED <<snapVars, rlock, qres, ins, old_count, changed, result,
                   syncVars, readVars, committed, schedVars, reconVars, wmVars, lkVars, titleVars>>

\* (the query is made again under the write guard: not the code)
update_spaces_compare_requerying(o) ==
    /\ pc[o] = "compare"
    /\ \E d \in SpaceQueryResults :
         /\ SpacesNow(d) /\ qres' = [qres EXCEPT ![o] = d]
         /\ changed' = [changed EXCEPT ![o] = SpacesChanged(spaces, d)]
    /\ attempts' = [attempts EXCEPT ![o] = @ + 1]
    /\ pc' = [pc EXCEPT ![o] = "clear"]
    /\ UNCHANGED <<snapVars, lockVars, ins, old_count, result,
                   sync_pc, readVars, committed, schedVars, reconVars, wmVars, lkVars, titleVars>>

\* state.rs:33-46
update_spaces_compare(o) ==
    /\ pc[o] = "compare"
    /\ changed' = [changed EXCEPT ![o] = SpacesChanged(spaces, qres[o])]
    /\ pc' = [pc EXCEPT ![o] = "clear"]
    /\ UNCHANGED <<snapVars, lockVars, qres, ins, old_count, result,
                   syncVars, readVars, committed, schedVars, reconVars, wmVars, lkVars, titleVars>>

\* (the refresh inserts over the earlier entries without clearing them)
update_spaces_clear_keeping(o) ==
    /\ pc[o] = "clear"
    /\ spaces' = spaces
    /\ ins' = [ins EXCEPT ![o] = 0]
    /\ pc' = [pc EXCEPT ![o] = "insert"]
    /\ UNCHANGED <<windows, current_app, lockVars, qres, old_count, changed, result,
                   syncVars, readVars, committed, schedVars, reconVars, wmVars, lkVars, titleVars>>

\* state.rs:49
update_spaces_clear(o) ==
    /\ pc[o] = "clear"
    /\ spaces' = EmptyMap
    /\ ins' = [ins EXCEPT ![o] = 0]
    /\ pc' = [pc EXCEPT ![o] = "insert"]
    /\ UNCHANGED <<windows, current_app, lockVars, qres, old_count, changed, result,
                   syncVars, readVars, committed, schedVars, reconVars, wmVars, lkVars, titleVars>>

\* state.rs:50-52: one turn of the insert loop
update_spaces_insert(o) ==
    /\ pc[o] = "insert"
    /\ ins[o] < Len(qres[o])
    /\ LET s == qres[o][ins[o] + 1] IN spaces' = MapInsert(spaces, s.index, s)
    /\ ins' = [ins EXCEPT ![o] = @ + 1]
    /\ UNCHANGED <<windows, current_app, lockVars, pc, qres, old_count, changed, result,
                   syncVars, readVars, committed, schedVars, reconVars, wmVars, lkVars, titleVars>>

\* state.rs:58: Ok(changed); the write guard is dropped
update_spaces_return(o) ==
    /\ pc[o] = "insert"
    /\ ins[o] = Len(qres[o])
    /\ wlock' = [wlock EXCEPT !["spaces"] = NoOne]
    /\ result' = [result EXCEPT ![o] = Ok(changed[o])]
    /\ pc' = [pc EXCEPT ![o] = "done"]
    /\ ins' = [ins EXCEPT ![o] = 0]
    /\ changed' = [changed EXCEPT ![o] = FALSE]
    /\ qres' = [qres EXCEPT ![o] = <<>>]
    /\ committed' = [committed EXCEPT !["spaces"] = spaces]
    /\ UNCHANGED <<snapVars, rlock, old_count,
                   syncVars, readVars, schedVars, reconVars, wmVars, lkVars, titleVars>>

update_spaces(o) ==
    \/ update_spaces_query_err(o)
    \/ update_spaces_query_ok(o)
    \/ update_spaces_lock(o)
    \/ update_spaces_compare(o)
    \/ update_spaces_clear(o)
    \/ update_spaces_insert(o)
    \/ update_spaces_return(o)

(***************************************************************************)
(* DaemonState::update_windows (state.rs:62-81)                            *)
(***************************************************************************)
\* state.rs:63: query_windows().await? fails: the call returns the error
update_windows_query_err(o) ==
    /\ pc[o] = "query" /\ Polled(o)
    /\ pc' = [pc EXCEPT ![o] = "done"]
    /\ result' = [result EXCEPT ![o] = Err]
    /\ attempts' = [attempts EXCEPT ![o] = @ + 1]
    /\ UNCHANGED <<snapVars, lockVars, qres, ins, old_count, changed,
                   sync_pc, readVars, committed, schedVars, reconVars, wmVars, lkVars, titleVars>>

\* state.rs:63-64
update_windows_query_ok(o) ==
    /\ pc[o] = "query" /\ Polled(o)
    /\ \E d \in WindowQueryResults :
         WindowsNow(d) /\ qres' = [qres EXCEPT ![o] = d]
    /\ attempts' = [attempts EXCEPT ![o] = @ + 1]
    /\ IF CanWrite("windows")
       THEN /\ wlock' = [wlock EXCEPT !["windows"] = o]
            /\ pc' = [pc EXCEPT ![o] = "clear"]
       ELSE /\ pc' = [pc EXCEPT ![o] = "lock"]
            /\ UNCHANGED wlock
    /\ UNCHANGED <<snapVars, rlock, ins, old_count, changed, result,
                   sync_pc, readVars, committed, schedVars, reconVars, wmVars, lkVars, titleVars>>

\* state.rs:64: the awaited write guard is granted
update_windows_lock(o) ==
    /\ pc[o] = "lock" /\ Polled(o)
    /\ CanWrite("windows")
    /\ wlock' = [wlock EXCEPT !["windows"] = o]
    /\ pc' = [pc EXCEPT ![o] = "clear"]
    /\ UNCHANGED <<snapVars, rlock, qres, ins, old_count, changed, result,
                   syncVars, readVars, committed, schedVars, reconVars, wmVars, lkVars, titleVars>>

\* state.rs:66-70: changed = false, old_count = windows.len(), windows.clear()
update_windows_clear(o) ==
    /\ pc[o] = "clear"
    /\ changed' = [changed EXCEPT ![o] = FALSE]
    /\ old_count' = [old_count EXCEPT ![o] = Cardinality(DOMAIN windows)]
    /\ windows' = EmptyMap
    /\ ins' = [ins EXCEPT ![o] = 0]
    /\ pc' = [pc EXCEPT ![o] = "insert"]
    /\ UNCHANGED <<spaces, current_app, lockVars, qres, result,
                   syncVars, readVars, committed, schedVars, reconVars, wmVars, lkVars, titleVars>>

\* state.rs:71-73: one turn of the insert loop
update_windows_insert(o) ==
    /\ pc[o] = "insert"
    /\ ins[o] < Len(qres[o])
    /\ LET w == qres[o][ins[o] + 1] IN windows' = MapInsert(windows, w.id, w)
    /\ ins' = [ins EXCEPT ![o] = @ + 1]
    /\ UNCHANGED <<spaces, current_app, lockVars, pc, qres, old_count, changed, result,
                   syncVars, readVars, committed, schedVars, reconVars, wmVars, lkVars, titleVars>>

\* (changed is set when the windows differ from those found)
update_windows_return_comparing_contents(o) ==
    /\ pc[o] = "insert"
    /\ ins[o] = Len(qres[o])
    /\ result' = [result EXCEPT ![o] = Ok(windows # committed["windows"])]
    /\ wlock' = [wlock EXCEPT !["windows"] = NoOne]
    /\ pc' = [pc EXCEPT ![o] = "done"]
    /\ ins' = [ins EXCEPT ![o] = 0]
    /\ old_count' = [old_count EXCEPT ![o] = 0]
    /\ changed' = [changed EXCEPT ![o] = FALSE]
    /\ qres' = [qres EXCEPT ![o] = <<>>]
    /\ committed' = [committed EXCEPT !["windows"] = windows]
    /\ UNCHANGED <<snapVars, rlock,
                   syncVars, readVars, schedVars, reconVars, wmVars, lkVars, titleVars>>

\* state.rs:75-80: changed is set when the count differs; Ok(changed)
update_windows_return(o) ==
    /\ pc[o] = "insert"
    /\ ins[o] = Len(qres[o])
    /\ LET c == (Cardinality(DOMAIN windows) # old_count[o]) \/ changed[o] IN
         result' = [result EXCEPT ![o] = Ok(c)]
    /\ wlock' = [wlock EXCEPT !["windows"] = NoOne]
    /\ pc' = [pc EXCEPT ![o] = "done"]
    /\ ins' = [ins EXCEPT ![o] = 0]
    /\ old_count' = [old_count EXCEPT ![o] = 0]
    /\ changed' = [changed EXCEPT ![o] = FALSE]
    /\ qres' = [qres EXCEPT ![o] = <<>>]
    /\ committed' = [committed EXCEPT !["windows"] = windows]
    /\ UNCHANGED <<snapVars, rlock,
                   syncVars, readVars, schedVars, reconVars, wmVars, lkVars, titleVars>>

update_windows(o) ==
    \/ update_windows_query_err(o)
    \/ update_windows_query_ok(o)
    \/ update_windows_lock(o)
    \/ update_windows_clear(o)
    \/ update_windows_insert(o)
    \/ update_windows_return(o)

(***************************************************************************)
(* DaemonState::update_current_app (state.rs:84-98)                        *)
(***************************************************************************)
\* what query_focused_app returns (yabai.rs:120-147): a name, or an error
\* when both strategies fail
FocusedAppResults == {Ok(n) : n \in AppNames} \cup {Err}

\* state.rs:85-87: .unwrap_or_else(|_| "Unknown".to_string())
unwrap_or_unknown(r) == IF r = Err THEN Unknown ELSE r[2]

\* (the error of the query is returned, as by `?`)
update_current_app_query_propagating(o) ==
    /\ pc[o] = "query" /\ Polled(o)
    /\ \E r \in FocusedAppResults :
         IF r = Err
         THEN /\ pc' = [pc EXCEPT ![o] = "done"]
              /\ result' = [result EXCEPT ![o] = Err]
              /\ UNCHANGED <<qres, wlock>>
         ELSE /\ qres' = [qres EXCEPT ![o] = r[2]]
              /\ wlock' = IF CanWrite("current_app")
                          THEN [wlock EXCEPT !["current_app"] = o] ELSE wlock
              /\ pc' = [pc EXCEPT ![o] = IF CanWrite("current_app")
                                         THEN "store" ELSE "lock"]
              /\ UNCHANGED result
    /\ attempts' = [attempts EXCEPT ![o] = @ + 1]
    /\ UNCHANGED <<snapVars, rlock, ins, old_count, changed,
                   sync_pc, readVars, committed, schedVars, reconVars, wmVars, lkVars, titleVars>>

\* state.rs:85-89
update_current_app_query(o) ==
    /\ pc[o] = "query" /\ Polled(o)
    /\ \E r \in FocusedAppResults : qres' = [qres EXCEPT ![o] = unwrap_or_unknown(r)]
    /\ attempts' = [attempts EXCEPT ![o] = @ + 1]
    /\ IF CanWrite("current_app")
       THEN /\ wlock' = [wlock EXCEPT !["current_app"] = o]
            /\ pc' = [pc EXCEPT ![o] = "store"]
       ELSE /\ pc' = [pc EXCEPT ![o] = "lock"]
            /\ UNCHANGED wlock
    /\ UNCHANGED <<snapVars, rlock, ins, old_count, changed, result,
                   sync_pc, readVars, committed, schedVars, reconVars, wmVars, lkVars, titleVars>>

\* state.rs:89: the awaited write guard is granted
update_current_app_lock(o) ==
    /\ pc[o] = "lock" /\ Polled(o)
    /\ CanWrite("current_app")
    /\ wlock' = [wlock EXCEPT !["current_app"] = o]
    /\ pc' = [pc EXCEPT ![o] = "store"]
    /\ UNCHANGED <<snapVars, rlock, qres, ins, old_count, changed, result,
                   syncVars, readVars, committed, schedVars, reconVars, wmVars, lkVars, titleVars>>

\* (the name is stored only over an absent value)
update_current_app_store_once(o) ==
    /\ pc[o] = "store"
    /\ LET c == current_app # Some(qres[o]) IN
         /\ current_app' = IF current_app = None THEN Some(qres[o]) ELSE current_app
         /\ result' = [result EXCEPT ![o] = Ok(c)]
    /\ wlock' = [wlock EXCEPT !["current_app"] = NoOne]
    /\ pc' = [pc EXCEPT ![o] = "done"]
    /\ qres' = [qres EXCEPT ![o] = <<>>]
    /\ committed' = [committed EXCEPT !["current_app"] = current_app']
    /\ UNCHANGED <<spaces, windows, rlock, ins, old_count, changed,
                   syncVars, readVars, schedVars, reconVars, wmVars, lkVars, titleVars>>

\* state.rs:90-97: compare, store when changed, Ok(changed)
update_current_app_store(o) ==
    /\ pc[o] = "store"
    /\ LET c == current_app # Some(qres[o]) IN
         /\ current_app' = IF c THEN Some(qres[o]) ELSE current_app
         /\ result' = [result EXCEPT ![o] = Ok(c)]
    /\ wlock' = [wlock EXCEPT !["current_app"] = NoOne]
    /\ pc' = [pc EXCEPT ![o] = "done"]
    /\ qres' = [qres EXCEPT ![o] = <<>>]
    /\ committed' = [committed EXCEPT !["current_app"] = current_app']
    /\ UNCHANGED <<spaces, windows, rlock, ins, old_count, changed,
                   syncVars, readVars, schedVars, reconVars, wmVars, lkVars, titleVars>>

update_current_app(o) ==
    \/ update_current_app_query(o)
    \/ update_current_app_lock(o)
    \/ update_current_app_store(o)

(***************************************************************************)
(* The state-sync task's tick (events.rs:101-118): the three refreshes     *)
(* under tokio::join!, each result looked at on its own.                   *)
(***************************************************************************)
\* events.rs:101-107: the interval fires and join! creates the three futures
state_sync_tick ==
    /\ sync_pc = "wait"
    /\ sync_pc' = "join"
    /\ pc' = [o \in CallIds |-> IF o \in SyncCalls THEN "query" ELSE pc[o]]
    /\ attempts' = [o \in CallIds |-> IF o \in SyncCalls THEN 0 ELSE attempts[o]]
    /\ UNCHANGED <<snapVars, lockVars, qres, ins, old_count, changed, result,
                   readVars, committed, schedVars, reconVars, wmVars, lkVars, titleVars>>

\* (a join that, like try_join!, ends at the first error and drops the
\* futures that have not completed)
state_sync_joined_at_first_error ==
    /\ sync_pc = "join"
    /\ \/ \A o \in SyncCalls : pc[o] = "done"
       \/ /\ \E o \in SyncCalls : result[o] = Err
          /\ \A o \in SyncCalls : pc[o] \in {"query", "lock", "done"}
    /\ sync_pc' = "wait"
    /\ pc' = [o \in CallIds |-> IF o \in SyncCalls THEN "idle" ELSE pc[o]]
    /\ qres' = [o \in CallIds |-> IF o \in SyncCalls THEN <<>> ELSE qres[o]]
    /\ result' = [o \in CallIds |-> IF o \in SyncCalls THEN NoResult ELSE result[o]]
    /\ UNCHANGED <<snapVars, lockVars, ins, old_count, changed, attempts,
                   readVars, committed, schedVars, reconVars, wmVars, lkVars, titleVars>>

\* events.rs:103-117: join! completes when all three have; each error is
\* logged and the task goes back to its select!
state_sync_joined ==
    /\ sync_pc = "join"
    /\ \A o \in SyncCalls : pc[o] = "done"
    /\ sync_pc' = "wait"
    /\ pc' = [o \in CallIds |-> IF o \in SyncCalls THEN "idle" ELSE pc[o]]
    /\ result' = [o \in CallIds |-> IF o \in SyncCalls THEN NoResult ELSE result[o]]
    /\ UNCHANGED <<snapVars, lockVars, qres, ins, old_count, changed, attempts,
                   readVars, committed, schedVars, reconVars, wmVars, lkVars, titleVars>>

\* a call of update_spaces by a task of its own (tests.rs:392-400,
\* items/tests.rs:496-530 call the refreshes directly)
call_update_spaces(o) ==
    /\ pc[o] \in {"idle", "done"}
    /\ pc' = Call(o)
    /\ result' = [result EXCEPT ![o] = NoResult]
    /\ attempts' = [attempts EXCEPT ![o] = 0]
    /\ UNCHANGED <<snapVars, lockVars, qres, ins, old_count, changed, sync_pc,
                   readVars, committed, schedVars, reconVars, wmVars, lkVars, titleVars>>

\* a call of update_windows by a task of its own (tests.rs:397, 585, 601)
call_update_windows(o) ==
    /\ pc[o] \in {"idle", "done"}
    /\ pc' = Call(o)
    /\ result' = [result EXCEPT ![o] = NoResult]
    /\ attempts' = [attempts EXCEPT ![o] = 0]
    /\ UNCHANGED <<snapVars, lockVars, qres, ins, old_count, changed, sync_pc,
                   readVars, committed, schedVars, reconVars, wmVars, lkVars, titleVars>>

\* a call of update_current_app by a task of its own (tests.rs:398)
call_update_current_app(o) ==
    /\ pc[o] \in {"idle", "done"}
    /\ pc' = Call(o)
    /\ result' = [result EXCEPT ![o] = NoResult]
    /\ attempts' = [attempts EXCEPT ![o] = 0]
    /\ UNCHANGED <<snapVars, lockVars, qres, ins, old_count, changed, sync_pc,
                   readVars, committed, schedVars, reconVars, wmVars, lkVars, titleVars>>

(***************************************************************************)
(* Readers: DaemonState::get_focused_space (state.rs:101-104) on spaces,   *)
(* window::update_with_state (items/window.rs:70-101) on windows,          *)
(* current_app::update_with_state (items/current_app.rs:63-80) on          *)
(* current_app.  Each takes the read guard, reads, and drops the guard.    *)
(***************************************************************************)
\* The render units space::update_with_state (items/space.rs:96-126),
\* window::update_with_state and current_app::update_with_state, with the
\* messages they send under their guard, are u_space, u_window and u_app.
RenderUnits == {"u_space", "u_window", "u_app"}
Readers == {"r_space", "r_space2", "r_window", "r_app"} \cup RenderUnits
LockOf(r) ==
    CASE r \in {"r_space", "r_space2", "u_space"} -> "spaces"
      [] r \in {"r_window", "u_window"} -> "windows"
      [] r \in {"r_app", "u_app"} -> "current_app"

CollOf(l) ==
    CASE l = "spaces" -> spaces
      [] l = "windows" -> windows
      [] l = "current_app" -> current_app

NotRead == <<"-">>

\* (a reader whose clone holds collections of its own, which nobody writes)
read_lock_own_copy(r) ==
    /\ rpc[r] = "idle"
    /\ CanRead(LockOf(r))
    /\ rlock' = [rlock EXCEPT ![LockOf(r)] = @ \cup {r}]
    /\ rseen' = [rseen EXCEPT ![r] =
                    IF LockOf(r) = "current_app" THEN None ELSE EmptyMap]
    /\ rpc' = [rpc EXCEPT ![r] = "reading"]
    /\ UNCHANGED <<snapVars, wlock, callVars, syncVars, committed,
                   schedVars, reconVars, wmVars, lkVars, titleVars>>

\* (a reader that takes the read guards of all the collections)
read_lock_all(r) ==
    /\ rpc[r] = "idle"
    /\ \A l \in LockNames : CanRead(l)
    /\ rlock' = [l \in LockNames |-> rlock[l] \cup {r}]
    /\ rseen' = [rseen EXCEPT ![r] = CollOf(LockOf(r))]
    /\ rpc' = [rpc EXCEPT ![r] = "reading"]
    /\ UNCHANGED <<snapVars, wlock, callVars, syncVars, committed,
                   schedVars, reconVars, wmVars, lkVars, titleVars>>

\* state.rs:102-103: self.spaces.read().await is granted and the reader
\* reads the collection under the guard
read_lock(r) ==
    /\ rpc[r] = "idle"
    /\ CanRead(LockOf(r))
    /\ rlock' = [rlock EXCEPT ![LockOf(r)] = @ \cup {r}]
    /\ rseen' = [rseen EXCEPT ![r] = CollOf(LockOf(r))]
    /\ rpc' = [rpc EXCEPT ![r] = "reading"]
    /\ UNCHANGED <<snapVars, wlock, callVars, syncVars, committed,
                   schedVars, reconVars, wmVars, lkVars, titleVars>>

\* the guard is dropped at the end of the function (state.rs:104)
read_unlock(r) ==
    /\ rpc[r] = "reading"
    /\ rlock' = [rlock EXCEPT ![LockOf(r)] = @ \ {r}]
    /\ rpc' = [rpc EXCEPT ![r] = "idle"]
    /\ rseen' = [rseen EXCEPT ![r] = NotRead]
    /\ UNCHANGED <<snapVars, wlock, callVars, syncVars, committed,
                   schedVars, reconVars, wmVars, lkVars, titleVars>>

reader(r) == read_lock(r) \/ read_unlock(r)

(***************************************************************************)
(* A render unit that reads the snapshot: it takes the read guard of its   *)
(* collection (items/space.rs:99, items/window.rs:73,                      *)
(* items/current_app.rs:66), sends its messages to the bar with            *)
(* bar.message while the guard is alive, and drops the guard when it       *)
(* returns.                                                                *)
(***************************************************************************)
\* the messages the unit sends for what it read: one for each space
\* (items/space.rs:102-122), one for the focused window or for "No Window"
\* (items/window.rs:76-98), one for the app when there is one
\* (items/current_app.rs:68-77)
Messages(u) ==
    CASE u = "u_space" -> Cardinality(DOMAIN rseen[u])
      [] u = "u_window" -> 1
      [] u = "u_app" -> IF rseen[u] = None THEN 0 ELSE 1

\* bar.message is called (sketchybar.rs:26-33): the unit is in the external
\* call, its guard still alive
unit_send(u) ==
    /\ rpc[u] = "reading"
    /\ Messages(u) > 0
    /\ rpc' = [rpc EXCEPT ![u] = "sending"]
    /\ UNCHANGED <<snapVars, lockVars, callVars, syncVars, rseen, committed,
                   schedVars, reconVars, wmVars, lkVars, titleVars>>

\* the unit's messages are answered, with an error or not
unit_sent(u) ==
    /\ rpc[u] = "sending"
    /\ rpc' = [rpc EXCEPT ![u] = "sent"]
    /\ UNCHANGED <<snapVars, lockVars, callVars, syncVars, rseen, committed,
                   schedVars, reconVars, wmVars, lkVars, titleVars>>

\* the unit returns and its guard is dropped
unit_return(u) ==
    /\ \/ rpc[u] = "sent"
       \/ rpc[u] = "reading" /\ Messages(u) = 0
    /\ rlock' = [rlock EXCEPT ![LockOf(u)] = @ \ {u}]
    /\ rpc' = [rpc EXCEPT ![u] = "idle"]
    /\ rseen' = [rseen EXCEPT ![u] = NotRead]
    /\ UNCHANGED <<snapVars, wlock, callVars, syncVars, committed,
                   schedVars, reconVars, wmVars, lkVars, titleVars>>

render_unit(u) == read_lock(u) \/ unit_send(u) \/ unit_sent(u) \/ unit_return(u)

(***************************************************************************)
(* The shutdown channel: broadcast::channel(1) (main.rs:37).  One message  *)
(* at most is ever sent, by the signal task, so the ring never laps a      *)
(* receiver.                                                               *)
(***************************************************************************)
\* the RefreshTasks in the order start_event_loops spawns them
\* (events.rs:36-44)
SpawnOrder == <<"state_sync", "clock", "battery", "keyboard", "space", "app", "window">>
Tasks == {SpawnOrder[i] : i \in 1..Len(SpawnOrder)}

\* the receivers: EventManager.shutdown_rx (main.rs:79), run's shutdown_rx
\* (main.rs:84) and one per RefreshTask (resubscribe, events.rs:94)
RxIds == {"em", "main"} \cup Tasks

\* no receiver: never created, or dropped
NoRx == [live |-> FALSE, next |-> 0]

\* Sender::subscribe and Receiver::resubscribe: the new receiver starts at
\* the current tail, so it sees only messages sent after this call
Subscribed(id) == [rx EXCEPT ![id] = [live |-> TRUE, next |-> tail]]

\* a receiver dropped with its owner
Dropped(id) == [rx EXCEPT ![id] = NoRx]

\* Sender::send fails, and the message is lost, when no receiver is alive
SendFails == \A id \in RxIds : ~rx[id].live

\* the channel after shutdown_tx.send(()) (main.rs:60); its result is ignored
Sent == IF SendFails THEN tail ELSE tail + 1

\* recv() is ready: a message was sent after this receiver was created
Ready(id) == rx[id].live /\ rx[id].next < tail

\* the process is running: main has not returned to the runtime's drop
Alive == main_pc # "exited"

(***************************************************************************)
(* SIGTERM and the signal task (main.rs:51-66)                             *)
(***************************************************************************)
\* the environment raises SIGTERM once the handler is installed; the Signals
\* stream holds it until the signal task reads it
raise_sigterm ==
    /\ Alive /\ main_pc # "init"
    /\ sig_raised < MaxSigterm
    /\ sig_raised' = sig_raised + 1
    /\ sig_pending' = IF sigtask = "listening" THEN 1 ELSE sig_pending
    /\ UNCHANGED <<main_pc, sigtask, tail, rx, em_pc, em_cause, task_pc,
                   monitor_pc>>
    /\ UNCHANGED <<stateVars, reconVars, wmVars, lkVars, titleVars>>

\* main.rs:56-62: the task reads one SIGTERM, sends, and breaks
signal_task ==
    /\ Alive /\ sigtask = "listening" /\ sig_pending = 1
    /\ sig_pending' = 0
    /\ tail' = Sent
    /\ sigtask' = "done"
    /\ UNCHANGED <<main_pc, sig_raised, rx, em_pc, em_cause, task_pc,
                   monitor_pc>>
    /\ UNCHANGED <<stateVars, reconVars, wmVars, lkVars, titleVars>>

(***************************************************************************)
(* SketchyBarDaemon::run (main.rs:48-103).  The runtime is multi-threaded  *)
(* (#[tokio::main], main.rs:196), so the spawned tasks run in parallel     *)
(* with the statements of run.                                             *)
(***************************************************************************)
\* main.rs:52-66: Signals::new installs the handler, the task is spawned
run_install_signals ==
    /\ main_pc = "init"
    /\ main_pc' = "setup"
    /\ sigtask' = "listening"
    /\ UNCHANGED <<sig_pending, sig_raised, tail, rx, em_pc, em_cause,
                   task_pc, monitor_pc>>
    /\ UNCHANGED <<stateVars, reconVars, wmVars, lkVars, titleVars>>

\* main.rs:69-73: the initial detect_and_setup_displays returned Ok; the
\* monitor task is spawned
run_setup_ok ==
    /\ main_pc = "setup"
    /\ main_pc' = "new_em"
    /\ monitor_pc' = "running"
    /\ UNCHANGED <<sig_pending, sig_raised, sigtask, tail, rx, em_pc,
                   em_cause, task_pc>>
    /\ UNCHANGED <<stateVars, reconVars, wmVars, lkVars, titleVars>>

\* main.rs:69: the initial detect_and_setup_displays returned Err; `?`
\* makes run return it
run_setup_err ==
    /\ main_pc = "setup"
    /\ main_pc' = "failed"
    /\ UNCHANGED <<sig_pending, sig_raised, sigtask, tail, rx, em_pc,
                   em_cause, task_pc, monitor_pc>>
    /\ UNCHANGED <<stateVars, reconVars, wmVars, lkVars, titleVars>>

\* main.rs:76-80: EventManager::new with shutdown_tx.subscribe()
run_new_event_manager ==
    /\ main_pc = "new_em"
    /\ main_pc' = "spawn_update"
    /\ rx' = Subscribed("em")
    /\ UNCHANGED <<sig_pending, sig_raised, sigtask, tail, em_pc, em_cause,
                   task_pc, monitor_pc>>
    /\ UNCHANGED <<stateVars, reconVars, wmVars, lkVars, titleVars>>

\* main.rs:81: update_task is spawned
run_spawn_update ==
    /\ main_pc = "spawn_update"
    /\ main_pc' = "subscribe"
    /\ em_pc' = "spawning"
    /\ UNCHANGED <<sig_pending, sig_raised, sigtask, tail, rx, em_cause,
                   task_pc, monitor_pc>>
    /\ UNCHANGED <<stateVars, reconVars, wmVars, lkVars, titleVars>>

\* main.rs:84: run's own receiver
run_subscribe ==
    /\ main_pc = "subscribe"
    /\ main_pc' = "select"
    /\ rx' = Subscribed("main")
    /\ UNCHANGED <<sig_pending, sig_raised, sigtask, tail, em_pc, em_cause,
                   task_pc, monitor_pc>>
    /\ UNCHANGED <<stateVars, reconVars, wmVars, lkVars, titleVars>>

\* main.rs:86-88: the shutdown branch of run's select!
run_select_shutdown ==
    /\ main_pc = "select" /\ Ready("main")
    /\ main_pc' = "returned"
    /\ rx' = Dropped("main")
    /\ UNCHANGED <<sig_pending, sig_raised, sigtask, tail, em_pc, em_cause,
                   task_pc, monitor_pc>>
    /\ UNCHANGED <<stateVars, reconVars, wmVars, lkVars, titleVars>>

\* main.rs:94-98: the update_task branch of run's select!  (The
\* monitor_task branch, main.rs:89-93, is never ready: monitor_displays is
\* a loop without an exit, main.rs:174-181.)
run_select_update ==
    /\ main_pc = "select" /\ em_pc = "returned"
    /\ main_pc' = "returned"
    /\ rx' = Dropped("main")
    /\ UNCHANGED <<sig_pending, sig_raised, sigtask, tail, em_pc, em_cause,
                   task_pc, monitor_pc>>
    /\ UNCHANGED <<stateVars, reconVars, wmVars, lkVars, titleVars>>

\* main.rs:208-209: run returned, main returns and the runtime is dropped:
\* every task that has not finished is cancelled, and the process ends
Cancelled(p, finished) == IF p \in finished THEN p ELSE "cancelled"

process_exit ==
    /\ main_pc \in {"returned", "failed"}
    /\ main_pc' = "exited"
    /\ sigtask' = Cancelled(sigtask, {"done"})
    /\ em_pc' = Cancelled(em_pc, {"unspawned", "returned"})
    /\ monitor_pc' = Cancelled(monitor_pc, {"unspawned"})
    /\ task_pc' = [t \in Tasks |->
                      Cancelled(task_pc[t], {"unspawned", "exited", "panicked"})]
    /\ rx' = [id \in RxIds |-> NoRx]
    /\ sig_pending' = 0
    /\ UNCHANGED <<sig_raised, tail, em_cause>>
    /\ UNCHANGED <<stateVars, reconVars, wmVars, lkVars, titleVars>>

(***************************************************************************)
(* monitor_displays (main.rs:171-182)                                      *)
(***************************************************************************)
\* main.rs:175-177: the interval ticks, the task takes the daemon's write
\* guard and starts a reconcile pass.  The task holds no receiver of the
\* shutdown channel.
monitor_tick ==
    /\ monitor_pc = "running"
    /\ monitor_pc' = "reconcile"
    /\ UNCHANGED <<main_pc, sig_pending, sig_raised, sigtask, tail, rx, em_pc,
                   em_cause, task_pc>>
    /\ UNCHANGED <<stateVars, reconVars, wmVars, lkVars, titleVars>>

\* main.rs:178-180: the pass returned, its error is logged, and the task is
\* back at interval.tick()
monitor_reconciled ==
    /\ monitor_pc = "reconcile"
    /\ monitor_pc' = "running"
    /\ UNCHANGED <<main_pc, sig_pending, sig_raised, sigtask, tail, rx, em_pc,
                   em_cause, task_pc>>
    /\ UNCHANGED <<stateVars, reconVars, wmVars, lkVars, titleVars>>

monitor_displays == monitor_tick \/ monitor_reconciled

(***************************************************************************)
(* EventManager::start_event_loops (events.rs:32-89)                       *)
(***************************************************************************)
\* the tasks spawned so far
Spawned == {t \in Tasks : task_pc[t] # "unspawned"}

\* events.rs:36-44 with 92-97 (and 130-135, 158-163, ...): the next spawn_*
\* call resubscribes for the task and spawns it; after the last one
\* start_event_loops is at its select!
start_event_loops_spawn ==
    /\ Alive /\ em_pc = "spawning"
    /\ LET t == SpawnOrder[Cardinality(Spawned) + 1] IN
         /\ rx' = Subscribed(t)
         /\ task_pc' = [task_pc EXCEPT ![t] = "wait"]
         /\ em_pc' = IF Cardinality(Spawned) + 1 = Len(SpawnOrder)
                     THEN "select" ELSE "spawning"
    /\ UNCHANGED <<main_pc, sig_pending, sig_raised, sigtask, tail, em_cause,
                   monitor_pc>>
    /\ UNCHANGED <<stateVars, reconVars, wmVars, lkVars, titleVars>>

\* events.rs:48-50: the shutdown branch; start_event_loops returns Ok and
\* the EventManager is dropped with its receiver
start_event_loops_shutdown ==
    /\ Alive /\ em_pc = "select" /\ Ready("em")
    /\ em_pc' = "returned"
    /\ em_cause' = "shutdown"
    /\ rx' = Dropped("em")
    /\ UNCHANGED <<main_pc, sig_pending, sig_raised, sigtask, tail, task_pc,
                   monitor_pc>>
    /\ UNCHANGED <<stateVars, reconVars, wmVars, lkVars, titleVars>>

\* events.rs:51-85: the branch of a task whose JoinHandle resolved (the task
\* returned, or panicked); the error is logged, start_event_loops returns Ok
\* and sends nothing to the other tasks
start_event_loops_task_done(t) ==
    /\ Alive /\ em_pc = "select" /\ task_pc[t] \in {"exited", "panicked"}
    /\ em_pc' = "returned"
    /\ em_cause' = "task"
    /\ rx' = Dropped("em")
    /\ UNCHANGED <<main_pc, sig_pending, sig_raised, sigtask, tail, task_pc,
                   monitor_pc>>
    /\ UNCHANGED <<stateVars, reconVars, wmVars, lkVars, titleVars>>

(***************************************************************************)
(* A RefreshTask's loop (events.rs:99-124, 137-152, 165-180, 193-208,      *)
(* 222-237, 251-266, 280-295).  The unit of work is taken as a whole here; *)
(* state_sync_tick and render_pass model its steps.                        *)
(***************************************************************************)
\* the tick branch of the task's select!: the unit of work starts
task_tick(t) ==
    /\ Alive /\ task_pc[t] = "wait"
    /\ task_pc' = [task_pc EXCEPT ![t] = "work"]
    /\ UNCHANGED <<main_pc, sig_pending, sig_raised, sigtask, tail, rx, em_pc,
                   em_cause, monitor_pc>>
    /\ UNCHANGED <<stateVars, reconVars, wmVars, lkVars, titleVars>>

\* the unit of work succeeded
task_work_ok(t) ==
    /\ Alive /\ task_pc[t] = "work"
    /\ task_pc' = [task_pc EXCEPT ![t] = "wait"]
    /\ UNCHANGED <<main_pc, sig_pending, sig_raised, sigtask, tail, rx, em_pc,
                   em_cause, monitor_pc>>
    /\ UNCHANGED <<stateVars, reconVars, wmVars, lkVars, titleVars>>

\* the unit of work failed: `if let Err(e)` logs it (events.rs:109-117,
\* 140-142, ...) and the loop goes on
task_work_err(t) ==
    /\ Alive /\ task_pc[t] = "work"
    /\ task_pc' = [task_pc EXCEPT ![t] = "wait"]
    /\ UNCHANGED <<main_pc, sig_pending, sig_raised, sigtask, tail, rx, em_pc,
                   em_cause, monitor_pc>>
    /\ UNCHANGED <<stateVars, reconVars, wmVars, lkVars, titleVars>>

\* items/window.rs:77-78: `&title[..47]` panics when byte 47 of the focused
\* window's title is inside a multi-byte character; the task unwinds and
\* its JoinHandle resolves to Err(JoinError)
task_work_panic(t) ==
    /\ Alive /\ t = "window" /\ task_pc[t] = "work"
    /\ task_pc' = [task_pc EXCEPT ![t] = "panicked"]
    /\ rx' = Dropped(t)
    /\ UNCHANGED <<main_pc, sig_pending, sig_raised, sigtask, tail, em_pc,
                   em_cause, monitor_pc>>
    /\ UNCHANGED <<stateVars, reconVars, wmVars, lkVars, titleVars>>

\* the shutdown branch of the task's select! (events.rs:119-122, ...): the
\* loop breaks and the task returns Ok
task_shutdown(t) ==
    /\ Alive /\ task_pc[t] = "wait" /\ Ready(t)
    /\ task_pc' = [task_pc EXCEPT ![t] = "exited"]
    /\ rx' = Dropped(t)
    /\ UNCHANGED <<main_pc, sig_pending, sig_raised, sigtask, tail, em_pc,
                   em_cause, monitor_pc>>
    /\ UNCHANGED <<stateVars, reconVars, wmVars, lkVars, titleVars>>

refresh_task(t) ==
    \/ task_tick(t)
    \/ task_work_ok(t)
    \/ task_work_err(t)
    \/ task_work_panic(t)
    \/ task_shutdown(t)

(***************************************************************************)
(* Displays: helpers/yabai.rs:9-64                                         *)
(***************************************************************************)

\* the key of a display: display.index.to_string() (yabai.rs:60)
DisplayId(i) == ToString(i)

\* yabai.rs:50: is_builtin, from the label yabai reports and the index
IsBuiltin(label_builtin, i) == label_builtin \/ i = 1

\* DisplayInfo (yabai.rs:10-14); the frame plays no part in reconciliation
DisplayInfo(label_builtin, i) ==
    [index |-> i, is_builtin |-> IsBuiltin(label_builtin, i)]

\* yabai.rs:28-41: yabai did not succeed, the default display is returned
FallbackDisplays == [id \in {"1"} |-> [index |-> 1, is_builtin |-> TRUE]]

\* yabai.rs:43-63: the map built from the displays yabai lists; S is the set
\* of their indices, lab says whose label contains "Built-in"
ParsedDisplays(S, lab) ==
    [id \in {DisplayId(i) : i \in S} |->
        LET i == CHOOSE j \in S : DisplayId(j) = id
        IN DisplayInfo(lab[i], i)]

\* How the command `yabai -m query --displays` can end (yabai.rs:26-44):
\* it cannot be run ("spawn_err"), it runs and exits unsuccessfully
\* ("exit_failure"), it succeeds with output that is not UTF-8 ("bad_utf8")
\* or not the expected JSON ("bad_json"), or it lists the displays with the
\* indices idx, of which lab says whose label contains "Built-in"
NotListed == {"spawn_err", "exit_failure", "bad_utf8", "bad_json"}
CommandOutputs ==
    [kind : NotListed, idx : {{}}, lab : {[i \in DisplayIdx |-> FALSE]}]
    \cup [kind : {"listed"}, idx : SUBSET DisplayIdx,
          lab : [DisplayIdx -> BOOLEAN]]

\* (an unsuccessful exit of the command is returned as an error)
get_displays_failing_on_exit(c) ==
    CASE c.kind = "listed" -> Ok(ParsedDisplays(c.idx, c.lab))
      [] OTHER -> Err

\* get_displays (yabai.rs:25-64)
get_displays(c) ==
    CASE c.kind = "spawn_err" -> Err
      [] c.kind = "exit_failure" -> Ok(FallbackDisplays)
      [] c.kind = "bad_utf8" -> Err
      [] c.kind = "bad_json" -> Err
      [] c.kind = "listed" -> Ok(ParsedDisplays(c.idx, c.lab))

\* what get_displays can return
GetDisplaysResults == {get_displays(c) : c \in CommandOutputs}

\* main.rs:132-136: the name of a display's bar
BarName(info) ==
    IF info.is_builtin THEN "sketchybar"
    ELSE "external_" \o ToString(info.index)

\* HashMap::remove for each key of K
MapRemove(m, K) == [k \in (DOMAIN m) \ K |-> m[k]]

(***************************************************************************)
(* The bars lock: detect_and_setup_displays holds its write guard from     *)
(* main.rs:109 to its return, a render pass holds a read guard             *)
(* (events.rs:138).                                                        *)
(***************************************************************************)
RenderTasks == {"clock", "space"}
BarsReaders == {r \in RenderTasks : rn[r].pc = "pass"}
BarsWriteHeld == rc.pc \in {"remove", "add"}

(***************************************************************************)
(* detect_and_setup_displays (main.rs:106-168), called by run and then by  *)
(* monitor_displays every 5 s (main.rs:174-181), never by both at once.    *)
(* rc.known, rc.before, rc.prev, rc.provisioned and rc.removed are         *)
(* history: the known ids and the bars when the call began, the ids the    *)
(* call before it was given, and what this call has set up and removed.    *)
(***************************************************************************)
\* main.rs:107: get_displays failed, `?` returns the error
detect_query_err ==
    /\ rc.pc = "idle"
    /\ \E c \in CommandOutputs :
         /\ get_displays(c) = Err
         /\ rc' = [rc EXCEPT !.result = "err", !.out = c.kind]
    /\ UNCHANGED <<displays, bars, state_displays, rn>>
    /\ UNCHANGED <<stateVars, schedVars, wmVars, lkVars, titleVars>>

\* main.rs:107-108: get_displays returned new_displays; the write guard of
\* displays, which nothing else locks, is taken
detect_query_ok ==
    /\ rc.pc = "idle"
    /\ \E c \in CommandOutputs :
         /\ get_displays(c) # Err
         /\ rc' = [pc |-> "lock_bars",
                   new |-> get_displays(c)[2],
                   out |-> c.kind,
                   known |-> DOMAIN displays,
                   before |-> bars,
                   prev |-> IF rc.result = "ok" THEN Some(DOMAIN rc.new) ELSE None,
                   provisioned |-> {},
                   removed |-> {},
                   result |-> "running"]
    /\ UNCHANGED <<displays, bars, state_displays, rn>>
    /\ UNCHANGED <<stateVars, schedVars, wmVars, lkVars, titleVars>>

\* (the write guard is given while render passes hold read guards: no lock)
detect_lock_bars_at_once ==
    /\ rc.pc = "lock_bars"
    /\ rc' = [rc EXCEPT !.pc = "remove"]
    /\ UNCHANGED <<displays, bars, state_displays, rn>>
    /\ UNCHANGED <<stateVars, schedVars, wmVars, lkVars, titleVars>>

\* main.rs:109: bars.write(), once no render pass holds a read guard
detect_lock_bars ==
    /\ rc.pc = "lock_bars"
    /\ BarsReaders = {}
    /\ rc' = [rc EXCEPT !.pc = "remove"]
    /\ UNCHANGED <<displays, bars, state_displays, rn>>
    /\ UNCHANGED <<stateVars, schedVars, wmVars, lkVars, titleVars>>

\* (no display is ever taken for gone: not the code)
to_remove_nothing == {}

\* main.rs:114-119
to_remove == {id \in DOMAIN displays : id \notin DOMAIN rc.new}

\* (the known display is forgotten and its bar is kept: not the code)
detect_remove_keeping_bar ==
    /\ rc.pc = "remove"
    /\ displays' = MapRemove(displays, to_remove)
    /\ rc' = [rc EXCEPT !.pc = "add", !.removed = to_remove]
    /\ UNCHANGED <<bars, state_displays, rn>>
    /\ UNCHANGED <<stateVars, schedVars, wmVars, lkVars, titleVars>>

\* main.rs:121-125: the displays that are gone leave displays and bars
detect_remove ==
    /\ rc.pc = "remove"
    /\ displays' = MapRemove(displays, to_remove)
    /\ bars' = MapRemove(bars, to_remove)
    /\ rc' = [rc EXCEPT !.pc = "add", !.removed = to_remove]
    /\ UNCHANGED <<state_displays, rn>>
    /\ UNCHANGED <<stateVars, schedVars, wmVars, lkVars, titleVars>>

\* (a display whose attributes changed is set up again)
to_add_or_changed ==
    {id \in DOMAIN rc.new :
        id \notin DOMAIN displays \/ displays[id] # rc.new[id]} \ rc.provisioned

\* the new displays the loop of main.rs:128-161 has still to visit
to_add == {id \in DOMAIN rc.new : id \notin DOMAIN displays} \ rc.provisioned

\* what setting up one bar can come to: setup_bar fails (main.rs:142-145),
\* setup_all_items fails (148-151), only hotload fails (154-156), all succeed
SetupOutcomes == {"config_err", "items_err", "hotload_err", "ok"}

\* main.rs:128-160: one iteration for a new display, in the map's order
detect_add ==
    /\ rc.pc = "add"
    /\ \E id \in to_add, out \in SetupOutcomes :
         /\ bars' = IF out \in {"hotload_err", "ok"}
                    THEN MapInsert(bars, id, [bar_name |-> BarName(rc.new[id])])
                    ELSE bars
         /\ rc' = [rc EXCEPT !.provisioned = @ \cup {id}]
    /\ UNCHANGED <<displays, state_displays, rn>>
    /\ UNCHANGED <<stateVars, schedVars, wmVars, lkVars, titleVars>>

\* (the known displays are not replaced: not the code)
detect_store_keeping_known ==
    /\ rc.pc = "add" /\ to_add = {}
    /\ state_displays' = rc.new
    /\ rc' = [rc EXCEPT !.pc = "idle", !.result = "ok"]
    /\ UNCHANGED <<displays, bars, rn>>
    /\ UNCHANGED <<stateVars, schedVars, wmVars, lkVars, titleVars>>

\* (the new displays are not mirrored into the snapshot: not the code)
detect_store_not_mirrored ==
    /\ rc.pc = "add" /\ to_add = {}
    /\ displays' = rc.new
    /\ rc' = [rc EXCEPT !.pc = "idle", !.result = "ok"]
    /\ UNCHANGED <<bars, state_displays, rn>>
    /\ UNCHANGED <<stateVars, schedVars, wmVars, lkVars, titleVars>>

\* main.rs:163-167: displays and state.displays become new_displays, the
\* guards are dropped, Ok is returned
detect_store ==
    /\ rc.pc = "add" /\ to_add = {}
    /\ displays' = rc.new
    /\ state_displays' = rc.new
    /\ rc' = [rc EXCEPT !.pc = "idle", !.result = "ok"]
    /\ UNCHANGED <<bars, rn>>
    /\ UNCHANGED <<stateVars, schedVars, wmVars, lkVars, titleVars>>

detect_and_setup_displays ==
    \/ detect_query_err
    \/ detect_query_ok
    \/ detect_lock_bars
    \/ detect_remove
    \/ detect_add
    \/ detect_store

(***************************************************************************)
(* A render pass: the tick of a render task (events.rs:137-144 the clock,  *)
(* 222-229 the space).  rn[r].start and rn[r].log are history: the targets *)
(* registered when the pass took its guard, and the attempts it has made.  *)
(***************************************************************************)
\* what the render unit can return: items::clock::update returns the error
\* of its message (items/clock.rs:47-50); items::space::update_with_state
\* logs the errors of its messages and returns Ok (items/space.rs:118-125)
UnitResults(r) == IF r = "clock" THEN {TRUE, FALSE} ELSE {TRUE}

\* the targets the loop over bars_guard.values() has still to visit
Unvisited(r) == DOMAIN bars \ {rn[r].log[i].id : i \in DOMAIN rn[r].log}

\* events.rs:138: bars.read(), while detect_and_setup_displays does not hold
\* the write guard
render_begin(r) ==
    /\ rn[r].pc = "wait"
    /\ ~BarsWriteHeld
    /\ rn' = [rn EXCEPT ![r] = [pc |-> "pass", start |-> DOMAIN bars, log |-> <<>>]]
    /\ UNCHANGED <<displays, bars, state_displays, rc>>
    /\ UNCHANGED <<stateVars, schedVars, wmVars, lkVars, titleVars>>

\* (a failed render ends the pass: not the code)
render_target_stopping_at_error(r) ==
    /\ rn[r].pc = "pass"
    /\ \E id \in Unvisited(r), ok \in UnitResults(r) :
         rn' = [rn EXCEPT ![r].log = Append(@, [id |-> id, ok |-> ok]),
                          ![r].pc = IF ok THEN "pass" ELSE "wait"]
    /\ UNCHANGED <<displays, bars, state_displays, rc>>
    /\ UNCHANGED <<stateVars, schedVars, wmVars, lkVars, titleVars>>

\* (a bar whose render failed is taken out of the registered bars: not the
\* code)
render_target_dropping_failed(r) ==
    /\ rn[r].pc = "pass"
    /\ \E id \in Unvisited(r), ok \in UnitResults(r) :
         /\ rn' = [rn EXCEPT ![r].log = Append(@, [id |-> id, ok |-> ok])]
         /\ bars' = IF ok THEN bars ELSE MapRemove(bars, {id})
    /\ UNCHANGED <<displays, state_displays, rc>>
    /\ UNCHANGED <<stateVars, schedVars, wmVars, lkVars, titleVars>>

\* events.rs:139-143: the unit is applied to the next bar, in the map's
\* order; an Err is logged and the loop goes on
render_target(r) ==
    /\ rn[r].pc = "pass"
    /\ \E id \in Unvisited(r), ok \in UnitResults(r) :
         rn' = [rn EXCEPT ![r].log = Append(@, [id |-> id, ok |-> ok])]
    /\ UNCHANGED <<displays, bars, state_displays, rc>>
    /\ UNCHANGED <<stateVars, schedVars, wmVars, lkVars, titleVars>>

\* events.rs:144: the loop is over, the guard is dropped, the task is back
\* at its select!
render_end(r) ==
    /\ rn[r].pc = "pass"
    /\ Unvisited(r) = {}
    /\ rn' = [rn EXCEPT ![r].pc = "wait"]
    /\ UNCHANGED <<displays, bars, state_displays, rc>>
    /\ UNCHANGED <<stateVars, schedVars, wmVars, lkVars, titleVars>>

render_pass(r) == render_begin(r) \/ render_target(r) \/ render_end(r)

(***************************************************************************)
(* Init: DaemonState::new (state.rs:19-26), nothing running.               *)
(***************************************************************************)
StateInit ==
    /\ spaces = EmptyMap
    /\ windows = EmptyMap
    /\ current_app = None
    /\ wlock = [l \in LockNames |-> NoOne]
    /\ rlock = [l \in LockNames |-> {}]
    /\ pc = [o \in CallIds |-> "idle"]
    /\ qres = [o \in CallIds |-> <<>>]
    /\ ins = [o \in CallIds |-> 0]
    /\ old_count = [o \in CallIds |-> 0]
    /\ changed = [o \in CallIds |-> FALSE]
    /\ result = [o \in CallIds |-> NoResult]
    /\ sync_pc = "wait"
    /\ attempts = [o \in CallIds |-> 0]
    /\ rpc = [r \in Readers |-> "idle"]
    /\ rseen = [r \in Readers |-> NotRead]
    /\ committed = [l \in LockNames |-> IF l = "current_app" THEN None ELSE EmptyMap]

\* SketchyBarDaemon::new (main.rs:36-45): the channel's first receiver is
\* dropped at once; nothing is spawned
SchedInit ==
    /\ main_pc = "init"
    /\ sig_pending = 0
    /\ sig_raised = 0
    /\ sigtask = "unspawned"
    /\ tail = 0
    /\ rx = [id \in RxIds |-> NoRx]
    /\ em_pc = "unspawned"
    /\ em_cause = "none"
    /\ task_pc = [t \in Tasks |-> "unspawned"]
    /\ monitor_pc = "unspawned"

\* SketchyBarDaemon::new (main.rs:39-42) and DaemonState::new (state.rs:24):
\* no display, no bar; no call and no pass yet
ReconInit ==
    /\ displays = EmptyMap
    /\ bars = EmptyMap
    /\ state_displays = EmptyMap
    /\ rc = [pc |-> "idle", new |-> EmptyMap, known |-> {}, before |-> EmptyMap,
             prev |-> None, provisioned |-> {}, removed |-> {}, result |-> "none",
             out |-> "none"]
    /\ rn = [r \in RenderTasks |-> [pc |-> "wait", start |-> {}, log |-> <<>>]]

\* every space is on display 1 and every window on space 1
WmInit ==
    /\ space_display = [i \in SpaceIdx |-> 1]
    /\ window_space = [w \in WindowIds |-> 1]

(***************************************************************************)
(* Part 4: the locks.  Every task is reduced to the RwLock operations it   *)
(* performs, in program order: the display monitor (main.rs:171-182 and    *)
(* 105-168), the render tasks (events.rs:137-298 with the render units of  *)
(* src/src/items) and the three refreshes of the state-sync task           *)
(* (state.rs:29-98).  tokio's RwLock grants its guards first come first    *)
(* served: a task that asks for a guard queues behind every task already   *)
(* waiting, so a waiting writer holds back the readers that come after it. *)
(***************************************************************************)
RwLocks == {"daemon", "displays", "bars", "state_displays",
            "spaces", "windows", "current_app"}

\* the clock, battery and keyboard tasks (events.rs:137-211) take the bars'
\* read guard for the pass and nothing else, which is what the space, app and
\* window tasks do in a pass over no bar
LockTasks == {"monitor", "space", "app", "window",
              "sync_spaces", "sync_windows", "sync_app"}

Acquire(l, m) == [op |-> "acquire", lock |-> l, mode |-> m, to |-> {}]
Release(l) == [op |-> "release", lock |-> l, mode |-> "none", to |-> {}]
Goto(ps) == [op |-> "goto", lock |-> "none", mode |-> "none", to |-> ps]

\* monitor_displays (main.rs:171-182): the daemon's write guard for the whole
\* call of detect_and_setup_displays (main.rs:105-168), which returns at once
\* when get_displays fails and otherwise takes the write guards of displays
\* and bars, then state.displays' for one statement, and drops bars' and
\* displays' at its end
MonitorProgram ==
    << Acquire("daemon", "write"),
       Goto({3, 9}),
       Acquire("displays", "write"),
       Acquire("bars", "write"),
       Acquire("state_displays", "write"),
       Release("state_displays"),
       Release("bars"),
       Release("displays"),
       Release("daemon") >>

\* the render unit of collection l taking l's read guard again inside the one
\* it holds
NestedRenderProgram(l) ==
    << Acquire("bars", "read"),
       Goto({3, 8}),
       Acquire(l, "read"),
       Acquire(l, "read"),
       Release(l),
       Release(l),
       Goto({2}),
       Release("bars") >>

\* the space, app and window tasks (events.rs:214-298): the bars' read guard
\* for the pass and, for every bar, the unit's read guard on its collection
\* (items/space.rs:101, items/current_app.rs:68, items/window.rs:75), dropped
\* when the unit returns
StateRenderProgram(l) ==
    << Acquire("bars", "read"),
       Goto({3, 6}),
       Acquire(l, "read"),
       Release(l),
       Goto({2}),
       Release("bars") >>

\* update_spaces, update_windows, update_current_app (state.rs:43, 75, 93):
\* the collection's write guard, dropped at the end of the block
RefreshProgram(l) ==
    << Acquire(l, "write"),
       Release(l) >>

Program(c) ==
    CASE c = "monitor" -> MonitorProgram
      [] c = "space" -> StateRenderProgram("spaces")
      [] c = "app" -> StateRenderProgram("current_app")
      [] c = "window" -> StateRenderProgram("windows")
      [] c = "sync_spaces" -> RefreshProgram("spaces")
      [] c = "sync_windows" -> RefreshProgram("windows")
      [] c = "sync_app" -> RefreshProgram("current_app")

OpAt(c) == Program(c)[lk_pos[c]]

\* the operation after position p; every program is the body of a loop
After(c, p) == IF p = Len(Program(c)) THEN 1 ELSE p + 1

Holders(l) ==
    lk_held[l].readers \cup
        (IF lk_held[l].writer = NoOne THEN {} ELSE {lk_held[l].writer})

Queued(c, l) == \E i \in DOMAIN lk_queue[l] : lk_queue[l][i] = c

\* RwLock::read / RwLock::write polled for the first time: the task joins the
\* lock's queue
lock_request(c) ==
    /\ OpAt(c).op = "acquire"
    /\ ~Queued(c, OpAt(c).lock)
    /\ lk_queue' = [lk_queue EXCEPT ![OpAt(c).lock] = Append(@, c)]
    /\ UNCHANGED <<lk_pos, lk_held>>
    /\ UNCHANGED <<stateVars, schedVars, reconVars, wmVars, titleVars>>

\* whether the lock can give the guard now: a write guard needs the lock free,
\* a read guard needs no writer
Grantable(l, m) ==
    /\ lk_held[l].writer = NoOne
    /\ m = "write" => lk_held[l].readers = {}

\* the guard is given to the first task of the queue
lock_grant(c) ==
    /\ OpAt(c).op = "acquire"
    /\ lk_queue[OpAt(c).lock] # <<>>
    /\ Head(lk_queue[OpAt(c).lock]) = c
    /\ Grantable(OpAt(c).lock, OpAt(c).mode)
    /\ lk_queue' = [lk_queue EXCEPT ![OpAt(c).lock] = Tail(@)]
    /\ lk_held' = [lk_held EXCEPT ![OpAt(c).lock] =
                       IF OpAt(c).mode = "write"
                       THEN [@ EXCEPT !.writer = c]
                       ELSE [@ EXCEPT !.readers = @ \cup {c}]]
    /\ lk_pos' = [lk_pos EXCEPT ![c] = After(c, @)]
    /\ UNCHANGED <<stateVars, schedVars, reconVars, wmVars, titleVars>>

\* the guard is dropped
lock_release(c) ==
    /\ OpAt(c).op = "release"
    /\ lk_held' = [lk_held EXCEPT ![OpAt(c).lock] =
                       [writer |-> IF @.writer = c THEN NoOne ELSE @.writer,
                        readers |-> @.readers \ {c}]]
    /\ lk_pos' = [lk_pos EXCEPT ![c] = After(c, @)]
    /\ UNCHANGED lk_queue
    /\ UNCHANGED <<stateVars, schedVars, reconVars, wmVars, titleVars>>

\* a branch of the task's code that touches no lock: the ? after get_displays,
\* the loop over the bars
lock_goto(c) ==
    /\ OpAt(c).op = "goto"
    /\ \E p \in OpAt(c).to : lk_pos' = [lk_pos EXCEPT ![c] = p]
    /\ UNCHANGED <<lk_held, lk_queue>>
    /\ UNCHANGED <<stateVars, schedVars, reconVars, wmVars, titleVars>>

lock_task(c) ==
    \/ lock_request(c)
    \/ lock_grant(c)
    \/ lock_release(c)
    \/ lock_goto(c)

\* every task before its first lock operation, every lock free
LkInit ==
    /\ lk_pos = [c \in LockTasks |-> 1]
    /\ lk_held = [l \in RwLocks |-> [writer |-> NoOne, readers |-> {}]]
    /\ lk_queue = [l \in RwLocks |-> <<>>]

(***************************************************************************)
(* Part 5: the window render unit's label (items/window.rs:70-101).  A     *)
(* title is a sequence of characters; Width gives the bytes of a           *)
(* character's UTF-8 encoding, which is what String::len and the slice     *)
(* &title[..47] count.                                                     *)
(***************************************************************************)
\* "a" and the characters of the literals take one byte; "e2", "j3" and "g4"
\* stand for characters of two, three and four bytes
WideChars == {"e2", "j3", "g4"}
Width(ch) ==
    CASE ch = "e2" -> 2
      [] ch = "j3" -> 3
      [] ch = "g4" -> 4
      [] OTHER -> 1

Rep(ch, n) == [i \in 1..n |-> ch]

\* the titles the unit is applied to
FocusedTitles ==
    {Rep("a", pre) \o Rep(w, k) \o Rep("a", post) :
        pre \in 0..MaxAscii, w \in WideChars, k \in 0..MaxWide, post \in 0..MaxTail}

\* String::len: the length in bytes
RECURSIVE ByteLen(_)
ByteLen(t) == IF t = <<>> THEN 0 ELSE Width(Head(t)) + ByteLen(Tail(t))

\* str::is_char_boundary: n bytes are a whole number of t's characters
IsCharBoundary(t, n) == \E k \in 0..Len(t) : ByteLen(SubSeq(t, 1, k)) = n

\* &t[..n] when n is a character boundary
Slice(t, n) == SubSeq(t, 1, CHOOSE k \in 0..Len(t) : ByteLen(SubSeq(t, 1, k)) = n)

Ellipsis == <<".", ".", ".">>
NoWindow == <<"N", "o", " ", "W", "i", "n", "d", "o", "w">>

\* items/window.rs:77-81, when the slice does not panic
display_title(t) ==
    IF ByteLen(t) > TitleLimit THEN Slice(t, TitleKeep) \o Ellipsis ELSE t

NotSent == [kind |-> "none", text |-> <<>>]
Panicked == [kind |-> "panic", text |-> <<>>]
Label(text) == [kind |-> "label", text |-> text]

\* items/window.rs:76, 91-97: no window of the snapshot has the focus
window_unit_no_window ==
    /\ sent_label = NotSent
    /\ focused_window = None
    /\ sent_label' = Label(NoWindow)
    /\ UNCHANGED focused_window
    /\ UNCHANGED <<stateVars, schedVars, reconVars, wmVars, lkVars>>

\* items/window.rs:77-83: the label made from the title is sent
window_unit_title ==
    /\ sent_label = NotSent
    /\ focused_window # None
    /\ LET t == focused_window[1] IN
         /\ ByteLen(t) > TitleLimit => IsCharBoundary(t, TitleKeep)
         /\ sent_label' = Label(display_title(t))
    /\ UNCHANGED focused_window
    /\ UNCHANGED <<stateVars, schedVars, reconVars, wmVars, lkVars>>

\* items/window.rs:78: &title[..47] panics, byte 47 being inside a character
window_unit_panic ==
    /\ sent_label = NotSent
    /\ focused_window # None
    /\ LET t == focused_window[1] IN
         /\ ByteLen(t) > TitleLimit
         /\ ~IsCharBoundary(t, TitleKeep)
    /\ sent_label' = Panicked
    /\ UNCHANGED focused_window
    /\ UNCHANGED <<stateVars, schedVars, reconVars, wmVars, lkVars>>

\* the unit has not run; no window has the focus
TitleInitNone ==
    /\ focused_window = None
    /\ sent_label = NotSent

Init == StateInit /\ SchedInit /\ ReconInit /\ WmInit /\ LkInit /\ TitleInitNone

(***************************************************************************)
(* Spec: the state-sync task and one reader of each collection.            *)
(***************************************************************************)
SyncReaders == {"r_space", "r_window", "r_app"}

Next ==
    \/ state_sync_tick
    \/ state_sync_joined
    \/ update_spaces("s1")
    \/ update_windows("w1")
    \/ update_current_app("a1")
    \/ \E r \in SyncReaders : reader(r)

Spec == Init /\ [][Next]_vars

(***************************************************************************)
(* ConcSpec: two tasks calling update_spaces and two readers of spaces.    *)
(***************************************************************************)
SpaceCallers == {"s1", "s2"}
SpaceReaders == {"r_space", "r_space2"}

ConcNext ==
    \/ \E o \in SpaceCallers : call_update_spaces(o)
    \/ \E o \in SpaceCallers : update_spaces(o)
    \/ \E r \in SpaceReaders : reader(r)

ConcSpec == Init /\ [][ConcNext]_vars

(***************************************************************************)
(* SnapSpec: update_windows and update_current_app called by tasks of      *)
(* their own, a reader of spaces, and the render units.                    *)
(***************************************************************************)
SnapNext ==
    \/ call_update_windows("w2")
    \/ update_windows("w2")
    \/ call_update_current_app("a2")
    \/ update_current_app("a2")
    \/ reader("r_space")
    \/ \E u \in RenderUnits : render_unit(u)

SnapSpec == Init /\ [][SnapNext]_vars

(***************************************************************************)
(* IsoSpec: update_spaces and update_windows, each called by a task of its *)
(* own, and a reader of each collection.                                   *)
(***************************************************************************)
IsoNext ==
    \/ call_update_spaces("s2")
    \/ update_spaces("s2")
    \/ call_update_windows("w2")
    \/ update_windows("w2")
    \/ \E r \in SyncReaders : reader(r)

IsoSpec == Init /\ [][IsoNext]_vars

(***************************************************************************)
(* WmSpec: one task calling update_spaces and update_windows one after the *)
(* other, a reader of each of the two collections, and the window manager  *)
(* moving spaces between displays.                                         *)
(***************************************************************************)
TestCalls == {"s2", "w2"}

\* tests.rs:395-400: the task calls a refresh when the one before returned
test_call(o) ==
    /\ \A p \in TestCalls : pc[p] \in {"idle", "done"}
    /\ IF o = "s2" THEN call_update_spaces(o) ELSE call_update_windows(o)

\* the user, or a display being attached or detached, moves a space to
\* another display; its windows go with it
yabai_move_space ==
    /\ \E i \in SpaceIdx, d \in DisplayIdx :
         /\ d # space_display[i]
         /\ space_display' = [space_display EXCEPT ![i] = d]
    /\ UNCHANGED <<stateVars, schedVars, reconVars, window_space, lkVars, titleVars>>

WmNext ==
    \/ \E o \in TestCalls : test_call(o)
    \/ update_spaces("s2")
    \/ update_windows("w2")
    \/ reader("r_space")
    \/ reader("r_window")
    \/ yabai_move_space

WmSpec == Init /\ [][WmNext]_vars

(***************************************************************************)
(* SchedSpec: run, the signal task, start_event_loops and the RefreshTasks *)
(***************************************************************************)
SchedNext ==
    \/ raise_sigterm
    \/ signal_task
    \/ run_install_signals
    \/ run_setup_ok
    \/ run_setup_err
    \/ run_new_event_manager
    \/ run_spawn_update
    \/ run_subscribe
    \/ run_select_shutdown
    \/ run_select_update
    \/ process_exit
    \/ monitor_displays
    \/ start_event_loops_spawn
    \/ start_event_loops_shutdown
    \/ \E t \in Tasks : start_event_loops_task_done(t)
    \/ \E t \in Tasks : refresh_task(t)

SchedSpec == Init /\ [][SchedNext]_vars

(***************************************************************************)
(* ReconSpec: the calls of detect_and_setup_displays, one after the other, *)
(* and the render passes of the clock and the space tasks.                 *)
(***************************************************************************)
ReconNext ==
    \/ detect_and_setup_displays
    \/ \E r \in RenderTasks : render_pass(r)

ReconSpec == Init /\ [][ReconNext]_vars

(***************************************************************************)
(* LockSpec: the tasks' lock programs.                                     *)
(***************************************************************************)
LockNext == \E c \in LockTasks : lock_task(c)

LockSpec == Init /\ [][LockNext]_vars

(***************************************************************************)
(* TitleSpec: the window render unit applied once to what the snapshot     *)
(* holds: no focused window, or one with a title of FocusedTitles.         *)
(***************************************************************************)
TitleInit ==
    /\ StateInit /\ SchedInit /\ ReconInit /\ WmInit /\ LkInit
    /\ focused_window \in {None} \cup {Some(t) : t \in FocusedTitles}
    /\ sent_label = NotSent

TitleNext ==
    \/ window_unit_no_window
    \/ window_unit_title
    \/ window_unit_panic

TitleSpec == TitleInit /\ [][TitleNext]_vars

(***************************************************************************)
(* Claims on the snapshot and its refreshes.                               *)
(***************************************************************************)

\* C1: whatever a reader of spaces reads under its read guard is the mapping
\* as the last completed refresh left it (the one before or the one after
\* any refresh running beside it): never the cleared mapping, never a mix.
C1_AtomicReplace ==
    \A r \in SpaceReaders : rpc[r] = "reading" => rseen[r] = committed["spaces"]

\* a reader holds a two-entry mapping while a refresh waits for the lock
C1_Witness ==
    \E r \in SpaceReaders :
        /\ rpc[r] = "reading"
        /\ DOMAIN rseen[r] = SpaceIdx
        /\ \E o \in SpaceCallers : pc[o] = "lock"

\* C2: the step in which update_spaces or update_windows sees its query fail
\* returns the error and leaves every collection, and its lock, as it was.
C2_FailedQueryKeepsSnapshot ==
    [][\A o \in {"s1", "w1"} :
          (pc[o] = "query" /\ pc'[o] = "done") =>
              /\ result'[o] = Err
              /\ spaces' = spaces /\ windows' = windows /\ current_app' = current_app
              /\ wlock' = wlock]_vars

\* both refreshes have failed in a tick and the earlier data is still there
C2_Witness ==
    /\ result["s1"] = Err /\ spaces # EmptyMap
    /\ result["w1"] = Err /\ windows # EmptyMap

\* C7: a tick of the state-sync task ends only when each of the three
\* refreshes has issued its query exactly once, whatever the others
\* returned; and a refresh whose query succeeded returns with its own
\* collection holding exactly the queried data.
C7_TickEnd ==
    (sync_pc = "join" /\ sync_pc' = "wait") =>
        \A o \in SyncCalls : attempts[o] = 1 /\ result[o] # NoResult

C7_Applied ==
    /\ (pc["s1"] = "insert" /\ pc'["s1"] = "done") =>
          (result'["s1"][1] = "ok" /\ spaces' = SpacesOf(qres["s1"]))
    /\ (pc["w1"] = "insert" /\ pc'["w1"] = "done") =>
          (result'["w1"][1] = "ok" /\ windows' = WindowsOf(qres["w1"]))
    /\ (pc["a1"] = "store" /\ pc'["a1"] = "done") =>
          (result'["a1"][1] = "ok" /\ current_app' = Some(qres["a1"]))

C7_EachRefreshOncePerTick ==
    /\ [](\A o \in SyncCalls : attempts[o] <= 1)
    /\ [][C7_TickEnd /\ C7_Applied]_vars

\* a tick in which update_spaces failed and the other two applied new data
C7_Witness ==
    /\ sync_pc = "join"
    /\ result["s1"] = Err
    /\ result["w1"] = Ok(TRUE) /\ windows # EmptyMap
    /\ result["a1"] = Ok(TRUE) /\ current_app # None

(***************************************************************************)
(* Claims on shutdown and the task loops (SchedSpec).                      *)
(***************************************************************************)
\* the tasks that are running their loop
Looping == {t \in Tasks : task_pc[t] \in {"wait", "work"}}

\* C3: once the shutdown message is broadcast, no RefreshTask that is
\* running its loop has missed it, whenever the task subscribed: the message
\* waits at the task's receiver until the task is back at its select!, so
\* that the task's loop exits.
C3_ShutdownNotMissed ==
    tail > 0 => \A t \in Looping : Ready(t)

\* C4: once the signal task has handled the SIGTERM, exactly one shutdown
\* message is in the channel, whatever run was doing when the signal came.
C4_SigtermDelivered ==
    sigtask = "done" => tail = 1

\* C5: when start_event_loops has returned because a task ended and no
\* shutdown was broadcast, every other task still running its loop has been
\* asked to stop: a shutdown message waits at its receiver.
C5_TaskEndStopsOthers ==
    (em_pc = "returned" /\ em_cause = "task" /\ tail = 0)
        => \A t \in Looping : Ready(t)

\* C6: in every RefreshTask a unit of work, whatever its outcome, leaves the
\* task in its loop: from the unit of work the task goes back to its wait
\* point (or is cancelled there by the end of the process).
C6_UnitOfWorkKeepsLoop ==
    [][\A t \in Tasks :
          task_pc[t] = "work" => task_pc'[t] \in {"work", "wait", "cancelled"}]_vars

\* C30: a unit of work that is under way once the shutdown message has been
\* sent goes on to its end: from it the task goes only to its wait point.
C30_WorkRunsToCompletion ==
    [][\A t \in Tasks :
          (tail > 0 /\ task_pc[t] = "work") => task_pc'[t] \in {"work", "wait"}]_vars

\* C23: once the shutdown message is in the channel, the display monitor
\* starts no further reconcile pass.
C23_MonitorObservesShutdown ==
    [][tail > 0 => ~(monitor_pc = "running" /\ monitor_pc' = "reconcile")]_vars

(***************************************************************************)
(* Claims on the render pass and on reconciliation (ReconSpec).            *)
(***************************************************************************)
\* the attempts of r's pass on target id
Attempts(r, id) == Cardinality({i \in DOMAIN rn[r].log : rn[r].log[i].id = id})

C9_SecondCallIdle ==
    (rc.result \in {"running", "ok"} /\ rc.prev = Some(DOMAIN rc.new))
        => /\ rc.provisioned = {}
           /\ rc.removed = {}
           /\ bars = rc.before

\* the second of two calls given the same two displays has returned, with a
\* bar registered
C9_Witness ==
    /\ rc.result = "ok" /\ rc.pc = "idle"
    /\ rc.prev = Some(DOMAIN rc.new)
    /\ Cardinality(DOMAIN rc.new) = 2
    /\ DOMAIN bars # {}

\* the ids known when the call began that its query no longer returns
Gone == rc.known \ DOMAIN rc.new

\* C10: when a call of detect_and_setup_displays that began with a known id
\* its query does not return has returned, no bar is registered for that
\* id, and displays and state.displays hold exactly the ids of the query.
C10_RemovedDisplay ==
    (rc.result = "ok" /\ Gone # {})
        => /\ \A id \in Gone : id \notin DOMAIN bars
           /\ DOMAIN displays = DOMAIN rc.new
           /\ DOMAIN state_displays = DOMAIN rc.new

\* a call has returned that began with a bar registered for a display its
\* query did not return, another display staying
C10_Witness ==
    /\ rc.result = "ok"
    /\ \E id \in Gone : id \in DOMAIN rc.before
    /\ DOMAIN rc.new # {}

\* C11: a display that is attached and had no bar registered when a call of
\* detect_and_setup_displays began (a display newly appeared, or one whose
\* setup failed before) has its bar set up by that call: when the call has
\* returned, the setup was attempted for it.
C11_FailedSetupRetried ==
    rc.result = "ok"
        => \A id \in DOMAIN rc.new \ DOMAIN rc.before : id \in rc.provisioned

\* C12: run does not end with an error: a failing display query, at startup
\* as later, leaves the daemon running.
C12_RunSurvivesQueryFailure ==
    main_pc # "failed"

(***************************************************************************)
(* Claims on what the refreshes return and store.                          *)
(***************************************************************************)
\* a call is at the return of update_spaces or update_windows
AtReturn(o) == pc[o] = "insert" /\ ins[o] = Len(qres[o])

\* the query result has a space whose has_focus differs from the entry of
\* the same index in the mapping old
FocusDiffers(old, data) ==
    \E i \in DOMAIN data :
        /\ data[i].index \in DOMAIN old
        /\ old[data[i].index].has_focus # data[i].has_focus

\* C13: update_spaces returns changed = true whenever its query result has
\* a space index whose has_focus differs from the entry of that index in
\* the mapping the call found (the one committed before it).
C13_FocusChangeIsChanged ==
    [][\A o \in SpaceCallers :
          (AtReturn(o) /\ pc'[o] = "done"
             /\ FocusDiffers(committed["spaces"], qres[o]))
          => result'[o] = Ok(TRUE)]_vars

\* a call is about to return changed = true for a query with the same two
\* spaces as before and the focus moved from one to the other
C13_Witness ==
    \E o \in SpaceCallers :
        /\ AtReturn(o) /\ changed[o]
        /\ DOMAIN committed["spaces"] = {1, 2}
        /\ DOMAIN spaces = {1, 2}
        /\ committed["spaces"][1].has_focus /\ ~committed["spaces"][2].has_focus
        /\ ~spaces[1].has_focus /\ spaces[2].has_focus

\* C14: a successful update_windows returns changed = true if and only if
\* the number of windows after the refresh differs from the number in the
\* mapping the call found, and whatever it returns the windows it leaves
\* are those of its query.
C14_ChangedIffCountDiffers ==
    [][\A o \in {"w2"} :
          (AtReturn(o) /\ pc'[o] = "done")
          => /\ result'[o] =
                  Ok(Cardinality(DOMAIN windows')
                        # Cardinality(DOMAIN committed["windows"]))
             /\ windows' = WindowsOf(qres[o])]_vars

\* a refresh has replaced window 1, found with one title, by the same
\* window with another title, and is about to return changed = false
C14_Witness ==
    /\ AtReturn("w2")
    /\ DOMAIN committed["windows"] = {1} /\ DOMAIN windows = {1}
    /\ committed["windows"][1].title = "t1"
    /\ windows[1].title = "t2"
    /\ old_count["w2"] = 1

\* C15: update_current_app never returns an error, and the name it goes on
\* with after its query is a name the query returned or, when the query
\* failed, the sentinel "Unknown".
C15_NeverAnError ==
    \A o \in {"a2"} :
        /\ result[o] # Err
        /\ pc[o] \in {"lock", "store"} => qres[o] \in AppNames \cup {Unknown}

\* a call whose query failed has returned Ok, having stored "Unknown"
C15_Witness ==
    /\ pc["a2"] = "done"
    /\ result["a2"] = Ok(TRUE)
    /\ current_app = Some(Unknown)

\* C16: update_current_app returns changed = true exactly when the name it
\* obtained differs from the value of current_app it found (None differs
\* from every name), and it leaves current_app = Some(that name), which is
\* what a reader reads from then on.
C16_ChangedIffNameDiffers ==
    [][\A o \in {"a2"} :
          (pc[o] = "store" /\ pc'[o] = "done")
          => /\ result'[o] = Ok(current_app # Some(qres[o]))
             /\ current_app' = Some(qres[o])
             /\ committed'["current_app"] = Some(qres[o])]_vars

\* a call that found another name has returned changed = true and the app
\* unit reads Some("Safari")
C16_Witness ==
    /\ result["a2"] = Ok(TRUE)
    /\ rpc["u_app"] = "sending"
    /\ rseen["u_app"] = Some("Safari")

\* C17: a refresh whose source failed leaves the value of its collection at
\* the last value fetched with success: update_spaces and update_windows
\* when their query returned an error, update_current_app when its query
\* failed (the name it holds is then the sentinel) and current_app holds a
\* name that a query returned.
C17_FailingSourceFreezes ==
    [][/\ \A o \in {"s1", "w1"} :
             (pc[o] = "query" /\ result'[o] = Err)
                 => (spaces' = spaces /\ windows' = windows)
       /\ (/\ pc["a1"] = "store" /\ qres["a1"] = Unknown
           /\ \E n \in AppNames : current_app = Some(n))
             => current_app' = current_app]_vars

(***************************************************************************)
(* Claims on the locks of the snapshot.                                    *)
(***************************************************************************)
\* the collections whose guard the operation h holds
Held(h) == {l \in LockNames : wlock[l] = h \/ h \in rlock[l]}

C19_NoSendUnderGuard ==
    \A u \in RenderUnits : rpc[u] = "sending" => Held(u) = {}

\* the collection a refresh writes (state.rs:31, 64, 89)
OwnOf(o) ==
    CASE o \in {"s1", "s2"} -> "spaces"
      [] o \in {"w1", "w2"} -> "windows"
      [] o \in {"a1", "a2"} -> "current_app"

\* the lock l is held by nobody
Free(l) == wlock[l] = NoOne /\ rlock[l] = {}

Focused(f) == {i \in DOMAIN f : f[i].has_focus}

\* C21: a completed refresh leaves as many focused spaces in the mapping as
\* its query result held, and a reader of spaces observes at most one
\* focused space when the last completed refresh had at most one, and
\* exactly one when it had exactly one.
C21_AtMostOneFocus ==
    [][/\ \A o \in SpaceCallers :
            (AtReturn(o) /\ pc'[o] = "done") =>
                Cardinality(Focused(committed'["spaces"]))
                    = Cardinality(Focused(qres[o]))
       /\ \A r \in SpaceReaders :
            rpc'[r] = "reading" =>
                LET n == Cardinality(Focused(committed'["spaces"])) IN
                  n <= 1 => Cardinality(Focused(rseen'[r])) = n]_vars

\* a reader observes two spaces of which space 1 has the focus while a
\* refresh whose result moves the focus to space 2 waits for the guard
C21_Witness ==
    \E r \in SpaceReaders, o \in SpaceCallers :
        /\ rpc[r] = "reading"
        /\ DOMAIN rseen[r] = SpaceIdx /\ Focused(rseen[r]) = {1}
        /\ pc[o] = "lock"
        /\ Len(qres[o]) = 2 /\ Focused(qres[o]) = {2}

\* C22: every window of the windows mapping whose space is in the spaces
\* mapping is on that space's display.
C22_WindowOnItsSpacesDisplay ==
    \A w \in DOMAIN committed["windows"] :
        LET win == committed["windows"][w] IN
          win.space \in DOMAIN committed["spaces"]
              => win.display = committed["spaces"][win.space].display

\* C24: after a reconcile pass, every display that was known before it and
\* is in its query result has not been set up by the pass, and the render
\* target it had, if any, is the one it still has.
C24_AttachedKeepsTarget ==
    rc.result = "ok" =>
        \A id \in rc.known \cap DOMAIN rc.new :
            /\ id \notin rc.provisioned
            /\ id \in DOMAIN rc.before =>
                  (id \in DOMAIN bars /\ bars[id] = rc.before[id])

\* a pass has ended in which a known display with a bar came back with
\* another is_builtin: the bar still has the name of the earlier one
C24_Witness ==
    /\ rc.result = "ok"
    /\ \E id \in rc.known \cap DOMAIN rc.new :
         /\ id \in DOMAIN rc.before /\ id \in DOMAIN bars
         /\ bars[id].bar_name # BarName(displays[id])

\* C25: after a reconcile pass that returned Ok, the daemon's known displays
\* and the snapshot's displays are both the mapping the pass's query gave.
C25_KnownIsQueryResult ==
    rc.result = "ok" => (displays = rc.new /\ state_displays = rc.new)

\* a pass has returned Ok whose query gave other displays than were known,
\* one of which could not be set up
C25_Witness ==
    /\ rc.result = "ok"
    /\ rc.known # {} /\ rc.known # DOMAIN rc.new
    /\ \E id \in DOMAIN rc.new : id \notin DOMAIN bars

\* C26: when the display query command ran and exited unsuccessfully,
\* get_displays returned Ok with the single display "1", of index 1 and
\* built in; when the command could not be run or its output could not be
\* parsed, get_displays returned an error.
C26_UnavailableFallbackOrError ==
    /\ rc.out = "exit_failure" =>
          /\ rc.result # "err"
          /\ DOMAIN rc.new = {"1"}
          /\ rc.new["1"].index = 1 /\ rc.new["1"].is_builtin
    /\ rc.out \in {"spawn_err", "bad_utf8", "bad_json"} => rc.result = "err"

\* a pass whose query command exited unsuccessfully has replaced the known
\* display "2" by the default display
C26_Witness ==
    /\ rc.out = "exit_failure" /\ rc.result = "ok"
    /\ "2" \in rc.known
    /\ DOMAIN displays = {"1"}

\* C27: the snapshot starts with empty spaces, windows and displays and no
\* current app; and the callers and readers, each holding a clone of the
\* DaemonState, share its collections: what a reader gets under its guard
\* is the mapping the last refresh, of whichever caller, left.
C27_NewIsEmptyAndShared ==
    /\ spaces = EmptyMap /\ windows = EmptyMap /\ state_displays = EmptyMap
    /\ current_app = None
    /\ [][\A r \in SpaceReaders :
            (rpc[r] = "idle" /\ rpc'[r] = "reading") =>
                rseen'[r] = committed["spaces"]]_vars

\* both readers hold the guard and observe the two spaces that a refresh
\* stored, while each caller has completed a refresh
C27_Witness ==
    /\ \A r \in SpaceReaders :
         rpc[r] = "reading" /\ DOMAIN rseen[r] = SpaceIdx
    /\ \A o \in SpaceCallers : pc[o] = "done" /\ result[o] # Err

\* C28: a refresh whose focused-app query failed leaves an absent current
\* app absent.
C28_AbsentUntilFirstSuccess ==
    [][\A o \in {"a2"} :
          (pc[o] = "store" /\ qres[o] = Unknown /\ current_app = None)
              => current_app' = None]_vars

\* C31: a step that changes the registered bars is a step of
\* detect_and_setup_displays under its write guard, and a step of a render
\* pass leaves the registered bars as they are.
C31_OnlyReconcileWritesBars ==
    [][/\ bars' # bars => (BarsWriteHeld /\ rc' # rc /\ rn' = rn)
       /\ rn' # rn => bars' = bars]_vars

\* a render pass over two registered bars is over, one of its attempts
\* failed, and both bars are still registered
C31_Witness ==
    \E r \in RenderTasks :
        /\ rn[r].pc = "wait" /\ Len(rn[r].log) = 2
        /\ \E i \in DOMAIN rn[r].log : ~rn[r].log[i].ok
        /\ DOMAIN bars = rn[r].start
        /\ rc.pc = "idle"
(***************************************************************************)
(* The locks (LockSpec).                                                   *)
(***************************************************************************)
\* the lock a task is waiting for, if it waits
WaitsOn(c) == IF OpAt(c).op = "acquire" /\ Queued(c, OpAt(c).lock)
              THEN {OpAt(c).lock} ELSE {}

\* the tasks ahead of c in the queue of l
Ahead(c, l) ==
    {lk_queue[l][i] : i \in {j \in DOMAIN lk_queue[l] :
                                \A k \in 1..j : lk_queue[l][k] # c}}

\* the tasks a waiting task waits for: those ahead of it in the queue and
\* those whose guard keeps the lock from giving it its own
Blockers(c) ==
    UNION {Ahead(c, l) \cup
             (IF OpAt(c).mode = "write" THEN Holders(l)
              ELSE Holders(l) \ lk_held[l].readers) : l \in WaitsOn(c)}

RECURSIVE WaitClosure(_, _)
WaitClosure(S, n) ==
    IF n = 0 THEN S
    ELSE WaitClosure(S \cup UNION {Blockers(d) : d \in S}, n - 1)

\* C32: no task is on a cycle of tasks each waiting for a lock that the next
\* one holds or is queued for ahead of it, with the lock's first-come
\* first-served queue (a waiting writer holds back later readers).
C32_NoWaitCycle ==
    \A c \in LockTasks :
        c \notin WaitClosure(Blockers(c), Cardinality(LockTasks))

\* the monitor waits for the bars, which the space task holds while it waits
\* for the spaces, which the refresh holds; the app task waits behind the
\* monitor
C32_Witness ==
    /\ lk_held["bars"].readers = {"space"}
    /\ lk_queue["bars"] = <<"monitor", "app">>
    /\ lk_held["spaces"].writer = "sync_spaces"
    /\ lk_queue["spaces"] = <<"space">>
    /\ Blockers("app") = {"monitor"}
    /\ "sync_spaces" \in WaitClosure(Blockers("app"), Cardinality(LockTasks))
(***************************************************************************)
(* The RefreshTasks' exits (SchedSpec).                                    *)
(***************************************************************************)
\* C33: a RefreshTask that has ended has returned Ok from its loop, and a
\* shutdown message had been sent by then.
C33_TaskEndsOnlyOnShutdown ==
    \A t \in Tasks :
        task_pc[t] \in {"exited", "panicked"} =>
            (task_pc[t] = "exited" /\ tail > 0)
\* C34: between reconcile passes every registered target's id is a known
\* display's and a snapshot display's; the registered ids are the known ids
\* before the first pass, and after a pass that began with them equal and in
\* which every display set up got its target.
C34_BarsWithinDisplays ==
    rc.pc = "idle" =>
        /\ DOMAIN bars \subseteq DOMAIN displays
        /\ DOMAIN bars \subseteq DOMAIN state_displays
        /\ rc.result = "none" => DOMAIN bars = DOMAIN displays
        /\ (/\ rc.result = "ok"
            /\ DOMAIN rc.before = rc.known
            /\ rc.provisioned \subseteq DOMAIN bars)
           => DOMAIN bars = DOMAIN displays

\* a pass has removed one display's target and set up another's, with no
\* failure: the registered ids are again the known ids
C34_Witness ==
    /\ rc.pc = "idle" /\ rc.result = "ok"
    /\ DOMAIN rc.before = rc.known
    /\ rc.removed # {} /\ rc.provisioned # {}
    /\ rc.provisioned \subseteq DOMAIN bars
    /\ DOMAIN bars = DOMAIN displays
    /\ DOMAIN bars = DOMAIN state_displays
C36_RenderExcludesReconcile ==
    /\ BarsWriteHeld => BarsReaders = {}
    /\ \A r \in RenderTasks :
          /\ rn[r].pc = "pass" => DOMAIN bars = rn[r].start
          /\ rn[r].pc = "wait" =>
                {rn[r].log[i].id : i \in DOMAIN rn[r].log} = rn[r].start

\* a render pass has visited one of two targets while a reconcile pass that
\* is to remove a display waits for the write guard
C36_Witness ==
    \E r \in RenderTasks :
        /\ rn[r].pc = "pass"
        /\ Len(rn[r].log) = 1
        /\ Cardinality(rn[r].start) = 2
        /\ rc.pc = "lock_bars"
        /\ to_remove # {}
\* C37: a refresh makes its query while it does not hold the write guard of
\* its collection; while it holds the guard it makes no query and is in its
\* compare-and-replace steps; and while its query is pending a reader of the
\* collection that is ready to read can take its read guard.
C37_QueryOutsideGuard ==
    [][\A o \in SyncCalls :
          /\ attempts'[o] > attempts[o] => wlock[OwnOf(o)] # o
          /\ wlock[OwnOf(o)] = o =>
                (attempts'[o] = attempts[o] /\ pc[o] \in Running)
          /\ pc[o] = "query" =>
                \A r \in SyncReaders :
                    (LockOf(r) = OwnOf(o) /\ rpc[r] = "idle")
                        => ENABLED read_lock(r)]_vars

\* update_windows' query is pending while a reader holds a read guard of
\* windows, and update_spaces, its query made, waits for its guard
C37_Witness ==
    /\ pc["w1"] = "query" /\ pc["s1"] = "lock"
    /\ attempts["s1"] = 1 /\ attempts["w1"] = 0
    /\ "r_window" \in rlock["windows"]
    /\ "r_space" \in rlock["spaces"]
\* C38: no two registered render targets have the same bar name.
C38_DistinctBarNames ==
    \A a \in DOMAIN bars : \A b \in DOMAIN bars :
        a # b => bars[a].bar_name # bars[b].bar_name
(***************************************************************************)
(* The window render unit's label (TitleSpec).                             *)
(***************************************************************************)
\* C39: the window render unit sends "No Window" when no window has the
\* focus; otherwise it sends the title when the title has at most 50
\* characters and else its first 47 characters followed by "...", and the
\* label it sends has at most 50 characters.
C39_LabelIsTitleCutToFifty ==
    sent_label # NotSent =>
        IF focused_window = None THEN sent_label = Label(NoWindow)
        ELSE LET t == focused_window[1] IN
               /\ sent_label.kind = "label"
               /\ sent_label.text =
                     (IF Len(t) <= TitleLimit THEN t
                      ELSE SubSeq(t, 1, TitleKeep) \o Ellipsis)
               /\ Len(sent_label.text) <= TitleLimit

=============================================================================
